---- MODULE Spec2Model ----
(***************************************************************************)
(* Census demographics pipeline: metric fetcher (census_fetch.py),         *)
(* geometry loader and join (map_visualize.py), ratio calculator and the   *)
(* cleaning steps of the census_output scripts.                            *)
(*                                                                         *)
(* Text is a sequence of one-character strings, so that concatenation,     *)
(* width and leading zeros are what the code makes them.  A table          *)
(* (DataFrame) is a sequence of rows; a row is a function from column      *)
(* names to cells.  A float cell is NaN, +inf, -inf or an exact rational   *)
(* [k |-> "num", n, d] in lowest terms (rounding error is not modelled).   *)
(***************************************************************************)
EXTENDS Integers, Sequences, FiniteSets, TLC

VARIABLES
    pc,      \* the step the calling pipeline runs next
    df,      \* the metric table
    gdf,     \* the geometry table
    merged,  \* the enriched table
    call,    \* the last call: its name, what it raised, its network reads
    response, \* what the statistical API answers to the script's request
    files,   \* the output files written so far, by name
    fetcher  \* the CensusDataFetcher: its catalog, its key and its API client

vars == <<pc, df, gdf, merged, call, response, files, fetcher>>

----------------------------------------------------------------------------
(* Bounds *)

\* largest number of rows in a provider response, a shapefile or a table
MaxRows == 2

\* largest number of rows in the enriched state table of the density map
MaxStateRows == 1

----------------------------------------------------------------------------
(* Cells *)

\* a missing cell (None / NaN in an object column)
Missing == [k |-> "missing"]

NaN == [k |-> "nan"]

PosInf == [k |-> "inf"]

NegInf == [k |-> "-inf"]

Str(s) == [k |-> "str", s |-> s]

\* Python's None as an argument or a return value
None == [k |-> "None"]

\* the truth value Python gives None and text
truthy(x) == x # None /\ x # Str(<<>>)

\* a or b
or(a, b) == IF truthy(a) THEN a ELSE b

\* the provider's marker of a suppressed statistic, as it arrives
SENTINEL == Str(<<"-", "6", "6", "6", "6", "6", "6", "6", "6", "6">>)

NOT_AVAILABLE == Str(<<"N", "/", "A">>)

Abs(x) == IF x < 0 THEN -x ELSE x

RECURSIVE Gcd(_, _)
Gcd(a, b) == IF b = 0 THEN a ELSE Gcd(b, a % b)

\* the float n/d, d # 0, in lowest terms with a positive denominator
Num(n, d) ==
    LET g == Gcd(Abs(n), Abs(d))
        s == IF d < 0 THEN -1 ELSE 1
    IN [k |-> "num", n |-> s * (n \div g), d |-> Abs(d) \div g]

IsNum(x) == x.k = "num"

\* pandas isna(): None and NaN are missing, infinities are not
IsNA(x) == x.k \in {"missing", "nan"}

\* all sequences over S of length 0..n
SeqsUpTo(S, n) == UNION {[1..m -> S] : m \in 0..n}

\* text concatenation, str + str
Concat(a, b) == Str(a.s \o b.s)

\* Series + Series on text columns: a row with a missing operand is missing
text_add(a, b) == IF a.k = "str" /\ b.k = "str" THEN Concat(a, b) ELSE Missing

----------------------------------------------------------------------------
(* Tables *)

\* pd.DataFrame(list of dicts): the columns are the keys of the dicts, and
\* an empty list gives a table with no columns
DataFrame(data) ==
    [columns |-> IF Len(data) = 0 THEN {} ELSE DOMAIN data[1], rows |-> data]

EmptyFrame == [columns |-> {}, rows |-> <<>>]

\* a row with one more (or one overwritten) column
WithCol(row, col, value) ==
    [c \in (DOMAIN row) \cup {col} |-> IF c = col THEN value ELSE row[c]]

\* df[col] = series: the series is aligned with the rows of the table
SetColumn(t, col, series) ==
    [columns |-> t.columns \cup {col},
     rows |-> [i \in DOMAIN t.rows |-> WithCol(t.rows[i], col, series[i])]]

----------------------------------------------------------------------------
(* FIPS components as the provider and the boundary service emit them:     *)
(* zero-padded fixed-width digit strings.                                  *)

STATE_CODES == {Str(<<"0", "1">>), Str(<<"5", "3">>)}

COUNTY_CODES == {Str(<<"0", "0", "1">>), Str(<<"0", "2", "9">>)}

TRACT_CODES == {Str(<<"0", "0", "0", "1", "0", "2">>)}

LEVELS == {"state", "county", "tract"}

\* one row of the census client's result: a dict with NAME, the requested
\* variable and the FIPS components of the level
ApiRows(level) ==
    IF level = "state" THEN
        [NAME : {Str(<<"n">>)}, B01003_001E : {Str(<<"7">>)}, state : STATE_CODES]
    ELSE IF level = "county" THEN
        [NAME : {Str(<<"n">>)}, B01003_001E : {Str(<<"7">>)}, state : STATE_CODES,
         county : COUNTY_CODES]
    ELSE
        [NAME : {Str(<<"n">>)}, B01003_001E : {Str(<<"7">>)}, state : STATE_CODES,
         county : COUNTY_CODES, tract : TRACT_CODES]

\* the attribute columns of a TIGER/Line file of the level
ShapeColumns(level) ==
    IF level = "state" THEN {"STATEFP", "NAME", "geometry"}
    ELSE IF level = "county" THEN {"STATEFP", "COUNTYFP", "NAME", "geometry"}
    ELSE {"STATEFP", "COUNTYFP", "TRACTCE", "NAME", "geometry"}

\* the FIPS attributes of one feature of such a file
ShapeRows(level) ==
    IF level = "state" THEN [STATEFP : STATE_CODES]
    ELSE IF level = "county" THEN [STATEFP : STATE_CODES, COUNTYFP : COUNTY_CODES]
    ELSE [STATEFP : STATE_CODES, COUNTYFP : COUNTY_CODES, TRACTCE : TRACT_CODES]

\* gpd.read_file: feature i carries its attributes, a name and polygon i
read_file(level, features) ==
    [columns |-> ShapeColumns(level),
     rows |-> [i \in DOMAIN features |->
                 WithCol(WithCol(features[i], "NAME", Str(<<"g">>)),
                         "geometry", [k |-> "polygon", id |-> i])]]

----------------------------------------------------------------------------
(* census_fetch.py: the metric fetcher and its GEOID composition *)

NoCall == [op |-> "none", raised |-> "none", network |-> 0]

\* the last call ended in an exception, which nothing along main() catches
Raised == call.raised # "none"

NoResponse == [outcome |-> "none"]

NoFiles == <<>>

state_geoid(row) == row.state

county_geoid_swapped(row) == Concat(row.county, row.state)

county_geoid(row) == Concat(row.state, row.county)

tract_geoid(row) == Concat(Concat(row.state, row.county), row.tract)

\* df = pd.DataFrame(data); df['GEOID'] = df['state']: an empty result has
\* no 'state' column and the assignment raises KeyError
fetch_state_data(data) ==
    /\ call' = [op |-> "fetch_state_data", network |-> 1,
                raised |-> IF "state" \in DataFrame(data).columns
                           THEN "none" ELSE "KeyError"]
    /\ df' = IF "state" \in DataFrame(data).columns
             THEN SetColumn(DataFrame(data), "GEOID",
                            [i \in DOMAIN data |-> state_geoid(data[i])])
             ELSE df
    /\ UNCHANGED <<gdf, merged, response, files, fetcher>>

fetch_county_data(data) ==
    /\ call' = [op |-> "fetch_county_data", network |-> 1,
                raised |-> IF {"state", "county"} \subseteq DataFrame(data).columns
                           THEN "none" ELSE "KeyError"]
    /\ df' = IF {"state", "county"} \subseteq DataFrame(data).columns
             THEN SetColumn(DataFrame(data), "GEOID",
                            [i \in DOMAIN data |-> county_geoid(data[i])])
             ELSE df
    /\ UNCHANGED <<gdf, merged, response, files, fetcher>>

fetch_tract_data(data) ==
    /\ call' = [op |-> "fetch_tract_data", network |-> 1,
                raised |-> IF {"state", "county", "tract"} \subseteq DataFrame(data).columns
                           THEN "none" ELSE "KeyError"]
    /\ df' = IF {"state", "county", "tract"} \subseteq DataFrame(data).columns
             THEN SetColumn(DataFrame(data), "GEOID",
                            [i \in DOMAIN data |-> tract_geoid(data[i])])
             ELSE df
    /\ UNCHANGED <<gdf, merged, response, files, fetcher>>

----------------------------------------------------------------------------
(* map_visualize.py: load_geometries *)

\* the level arguments a caller may pass, supported or not
LEVEL_ARGS == LEVELS \cup {"place", "State"}

\* the state argument: None, the empty text, or a state FIPS code
STATE_ARGS == {None, Str(<<>>)} \cup STATE_CODES

gdf_geoid_tract_short(level, row) ==
    IF level = "state" THEN row.STATEFP
    ELSE IF level = "county" THEN Concat(row.STATEFP, row.COUNTYFP)
    ELSE Concat(row.STATEFP, row.TRACTCE)

gdf_geoid(level, row) ==
    IF level = "state" THEN row.STATEFP
    ELSE IF level = "county" THEN Concat(row.STATEFP, row.COUNTYFP)
    ELSE Concat(Concat(row.STATEFP, row.COUNTYFP), row.TRACTCE)

\* gpd.read_file(url) and the GEOID column: the table the call returns
geometries_read(level, state, features) ==
    /\ features \in SeqsUpTo(ShapeRows(level), MaxRows)
    /\ call' = [op |-> "load_geometries", level |-> level, state |-> state,
                network |-> 1, raised |-> "none"]
    /\ gdf' = LET t == read_file(level, features)
              IN SetColumn(t, "GEOID", [i \in DOMAIN t.rows |-> gdf_geoid(level, t.rows[i])])
    /\ UNCHANGED <<df, merged, response, files, fetcher>>

\* the call raises ValueError, after the given number of network reads
geometries_error(level, state, reads, message) ==
    /\ call' = [op |-> "load_geometries", level |-> level, state |-> state,
                network |-> reads, raised |-> "ValueError", message |-> message]
    /\ UNCHANGED <<df, gdf, merged, response, files, fetcher>>

STATE_REQUIRED == <<"State FIPS required for tract-level geometries">>

\* a loader that reads the tract file whatever the state argument is
load_geometries_state_unchecked(level, state, features) ==
    IF level \in LEVELS
    THEN geometries_read(level, state, features)
    ELSE geometries_error(level, state, 0, <<"Unknown level: ", level>>)

\* a loader that checks the level after it has read a file
load_geometries_read_first(level, state, features) ==
    IF level = "tract" /\ ~truthy(state)
    THEN geometries_error(level, state, 0, STATE_REQUIRED)
    ELSE IF level \in LEVELS
    THEN geometries_read(level, state, features)
    ELSE geometries_error(level, state, 1, <<"Unknown level: ", level>>)

\* features: what the file at the url of the call holds
load_geometries(level, state, features) ==
    IF level = "tract" /\ ~truthy(state)
    THEN geometries_error(level, state, 0, STATE_REQUIRED)
    ELSE IF level \in LEVELS
    THEN geometries_read(level, state, features)
    ELSE geometries_error(level, state, 0, <<"Unknown level: ", level>>)

----------------------------------------------------------------------------
(* census_fetch.py: the catalog of variables and the constructor *)

\* CensusDataFetcher.VARIABLES: a dict, as the list of its items in
\* insertion order; each value is the list of (name, code) items
Catalog ==
    << <<"population", << <<"total", "B01003_001E">>, <<"density", "B01003_001E">> >> >>,
       <<"age", << <<"median", "B01002_001E">>, <<"total", "B01001_001E">>,
                   <<"under_18", "B01001_003E">>, <<"over_65", "B01001_020E">> >> >>,
       <<"race", << <<"white", "B02001_002E">>, <<"black", "B02001_003E">>,
                    <<"native", "B02001_004E">>, <<"asian", "B02001_005E">>,
                    <<"pacific", "B02001_006E">>, <<"other", "B02001_007E">>,
                    <<"two_or_more", "B02001_008E">>, <<"hispanic", "B03003_003E">> >> >>,
       <<"education", << <<"total_25_over", "B15003_001E">>, <<"high_school", "B15003_017E">>,
                         <<"some_college", "B15003_019E">>, <<"associates", "B15003_021E">>,
                         <<"bachelors", "B15003_022E">>, <<"masters", "B15003_023E">>,
                         <<"professional", "B15003_024E">>, <<"doctorate", "B15003_025E">> >> >>,
       <<"income", << <<"median_household", "B19013_001E">>, <<"per_capita", "B19301_001E">>,
                      <<"mean_household", "B19025_001E">> >> >>,
       <<"housing", << <<"total_units", "B25001_001E">>, <<"median_value", "B25077_001E">>,
                       <<"median_rent", "B25064_001E">>, <<"owner_occupied", "B25003_002E">>,
                       <<"renter_occupied", "B25003_003E">> >> >>,
       <<"employment", << <<"in_labor_force", "B23025_002E">>, <<"employed", "B23025_004E">>,
                          <<"unemployed", "B23025_005E">> >> >> >>

\* dict.keys(), in order
keys(d) == [i \in DOMAIN d |-> d[i][1]]

\* key in dict
contains(d, k) == \E i \in DOMAIN d : d[i][1] = k

\* dict[key], for a key the dict has
getitem(d, k) == d[CHOOSE i \in DOMAIN d : d[i][1] = k][2]

\* sep.join(items), as the list of the pieces of the text
RECURSIVE join(_, _)
join(sep, items) ==
    IF Len(items) = 0 THEN <<>>
    ELSE IF Len(items) = 1 THEN <<items[1]>>
    ELSE <<items[1], sep>> \o join(sep, Tail(items))

\* a message that names the first category only
unknown_category_first_only(d, category) ==
    <<"Unknown category '", category, "'. Available: ">> \o SubSeq(keys(d), 1, 1)

\* f"Unknown category '{category}'. Available: {available}"
unknown_category(d, category) ==
    <<"Unknown category '", category, "'. Available: ">> \o join(", ", keys(d))

\* the class before it is instantiated: the catalog is a class attribute
NoFetcher == [catalog |-> Catalog, api_key |-> None, census |-> None]

\* Census(api_key): the API client; creating it reads nothing
Census(api_key) == [k |-> "Census", key |-> api_key]

\* an instance constructed with a key
Fetcher(api_key) == [catalog |-> Catalog, api_key |-> api_key, census |-> Census(api_key)]

\* api_key arguments and values of CENSUS_API_KEY: None (not given, unset),
\* the empty text, or a key
API_KEYS == {None, Str(<<>>), Str(<<"a">>), Str(<<"b">>)}

\* a constructor that creates the API client before it checks the key
CensusDataFetcher_client_first(api_key, env) ==
    LET key == or(api_key, env)
    IN /\ fetcher' = [fetcher EXCEPT !.api_key = key, !.census = Census(key)]
       /\ call' = [op |-> "CensusDataFetcher", api_key |-> api_key, env |-> env,
                   network |-> 0,
                   raised |-> IF truthy(key) THEN "none" ELSE "ValueError"]
       /\ UNCHANGED <<df, gdf, merged, response, files>>

\* CensusDataFetcher(api_key), with env the value of CENSUS_API_KEY
CensusDataFetcher(api_key, env) ==
    LET key == or(api_key, env)
    IN IF ~truthy(key) THEN
           /\ call' = [op |-> "CensusDataFetcher", api_key |-> api_key, env |-> env,
                       network |-> 0, raised |-> "ValueError"]
           /\ UNCHANGED <<df, gdf, merged, response, files, fetcher>>
       ELSE
           /\ fetcher' = [fetcher EXCEPT !.api_key = key, !.census = Census(key)]
           /\ call' = [op |-> "CensusDataFetcher", api_key |-> api_key, env |-> env,
                       network |-> 0, raised |-> "none"]
           /\ UNCHANGED <<df, gdf, merged, response, files>>

\* get_variables_for_category(category)
get_variables_for_category(category) ==
    /\ call' = IF ~contains(fetcher.catalog, category)
               THEN [op |-> "get_variables_for_category", category |-> category,
                     network |-> 0, raised |-> "ValueError",
                     message |-> unknown_category(fetcher.catalog, category)]
               ELSE [op |-> "get_variables_for_category", category |-> category,
                     network |-> 0, raised |-> "none",
                     returned |-> getitem(fetcher.catalog, category)]
    /\ UNCHANGED <<df, gdf, merged, response, files, fetcher>>

----------------------------------------------------------------------------
(* pandas numerics: pd.to_numeric(errors='coerce') and float division *)

DIGITS == <<"0", "1", "2", "3", "4", "5", "6", "7", "8", "9">>

IsDigit(c) == \E v \in DOMAIN DIGITS : DIGITS[v] = c

DigitVal(c) == (CHOOSE v \in DOMAIN DIGITS : DIGITS[v] = c) - 1

AllDigits(s) == \A i \in DOMAIN s : IsDigit(s[i])

\* the value of a digit string (0 for the empty one)
RECURSIVE NatOf(_)
NatOf(s) ==
    IF s = <<>> THEN 0
    ELSE NatOf(SubSeq(s, 1, Len(s) - 1)) * 10 + DigitVal(s[Len(s)])

RECURSIVE Pow10(_)
Pow10(n) == IF n = 0 THEN 1 ELSE 10 * Pow10(n - 1)

\* an unsigned decimal literal: digits, at most one point, at least one digit
ParseUnsigned(s) ==
    LET points == {i \in DOMAIN s : s[i] = "."}
    IN IF points = {} THEN
           IF Len(s) > 0 /\ AllDigits(s) THEN Num(NatOf(s), 1) ELSE NaN
       ELSE IF Cardinality(points) > 1 THEN NaN
       ELSE LET p == CHOOSE i \in points : TRUE
                ip == SubSeq(s, 1, p - 1)
                fp == SubSeq(s, p + 1, Len(s))
            IN IF Len(ip) + Len(fp) > 0 /\ AllDigits(ip) /\ AllDigits(fp)
               THEN Num(NatOf(ip \o fp), Pow10(Len(fp)))
               ELSE NaN

\* text to float, NaN when the text is no number
ParseNumber(s) ==
    IF Len(s) > 0 /\ s[1] \in {"-", "+"} THEN
        LET u == ParseUnsigned(Tail(s))
        IN IF IsNum(u) /\ s[1] = "-" THEN Num(-u.n, u.d) ELSE u
    ELSE ParseUnsigned(s)

to_numeric_zero(cell) ==
    IF cell.k = "str" THEN
        (IF IsNum(ParseNumber(cell.s)) THEN ParseNumber(cell.s) ELSE Num(0, 1))
    ELSE IF cell.k = "missing" THEN NaN
    ELSE cell

\* pd.to_numeric(cell, errors='coerce')
to_numeric(cell) ==
    IF cell.k = "str" THEN ParseNumber(cell.s)
    ELSE IF cell.k = "missing" THEN NaN
    ELSE cell

Sign(x) ==
    IF x.k = "inf" THEN 1
    ELSE IF x.k = "-inf" THEN -1
    ELSE IF x.n > 0 THEN 1 ELSE IF x.n < 0 THEN -1 ELSE 0

Signed(sgn) == IF sgn > 0 THEN PosInf ELSE IF sgn < 0 THEN NegInf ELSE NaN

\* float64 a / b: x/0 is +-inf, 0/0 is NaN, NaN propagates
Div(a, b) ==
    IF a.k = "nan" \/ b.k = "nan" THEN NaN
    ELSE IF ~IsNum(a) THEN (IF IsNum(b) /\ b.n # 0 THEN Signed(Sign(a) * Sign(b))
                            ELSE IF IsNum(b) THEN a ELSE NaN)
    ELSE IF ~IsNum(b) THEN Num(0, 1)
    ELSE IF b.n = 0 THEN Signed(Sign(a))
    ELSE LET g1 == Gcd(Abs(a.n), Abs(b.n))
             g2 == Gcd(a.d, b.d)
         IN Num((a.n \div g1) * (b.d \div g2), (a.d \div g2) * (b.n \div g1))

\* float64 a * k for a positive integer k
Scale(a, k) ==
    IF ~IsNum(a) THEN a
    ELSE LET g == Gcd(k, a.d) IN Num(a.n * (k \div g), a.d \div g)

----------------------------------------------------------------------------
(* census_fetch.py: calculate_percentage *)

percentage_unscaled(num, den) == Div(to_numeric(num), to_numeric(den))

percentage_text_as_zero(num, den) ==
    Scale(Div(to_numeric_zero(num), to_numeric_zero(den)), 100)

\* to_numeric(numerator) / to_numeric(denominator) * 100, for one row
percentage(num, den) == Scale(Div(to_numeric(num), to_numeric(den)), 100)

\* df[result_col] = ...; return df: the caller's table gets the column
calculate_percentage(numerator_col, denominator_col, result_col) ==
    IF {numerator_col, denominator_col} \subseteq df.columns THEN
        /\ df' = SetColumn(df, result_col,
                           [i \in DOMAIN df.rows |->
                              percentage(df.rows[i][numerator_col],
                                         df.rows[i][denominator_col])])
        /\ call' = [op |-> "calculate_percentage", raised |-> "none", network |-> 0,
                    table |-> df, numerator_col |-> numerator_col,
                    denominator_col |-> denominator_col, result_col |-> result_col]
        /\ UNCHANGED <<gdf, merged, response, files, fetcher>>
    ELSE
        /\ call' = [op |-> "calculate_percentage", raised |-> "KeyError", network |-> 0,
                    table |-> df, numerator_col |-> numerator_col,
                    denominator_col |-> denominator_col, result_col |-> result_col]
        /\ UNCHANGED <<df, gdf, merged, response, files, fetcher>>

----------------------------------------------------------------------------
(* pandas DataFrame.merge(right, on=..., how=...) *)

\* the name a column takes in the result: a column of both sides other than
\* the key gets the suffix of its side
Suffixed(c, other, on, suffix) == IF c # on /\ c \in other THEN c \o suffix ELSE c

MergedLeftColumns(left, right, on) ==
    {Suffixed(c, right.columns, on, "_x") : c \in left.columns}

MergedRightColumns(left, right, on) ==
    {Suffixed(c, left.columns, on, "_y") : c \in right.columns \ {on}}

\* one result row from a left row l and a right row r; a side without a
\* row gives missing cells
Combine(left, right, on, l, r) ==
    [oc \in MergedLeftColumns(left, right, on) \cup MergedRightColumns(left, right, on) |->
        IF oc \in MergedLeftColumns(left, right, on)
        THEN l[CHOOSE c \in left.columns : Suffixed(c, right.columns, on, "_x") = oc]
        ELSE r[CHOOSE c \in right.columns \ {on} :
                   Suffixed(c, left.columns, on, "_y") = oc]]

MissingRow(columns) == [c \in columns |-> Missing]

\* the positions j.. of the rows whose key cell equals key, in order; two
\* missing keys are equal to each other
RECURSIVE MatchIdx(_, _, _, _)
MatchIdx(rows, on, key, j) ==
    IF j > Len(rows) THEN <<>>
    ELSE (IF rows[j][on] = key THEN <<j>> ELSE <<>>) \o MatchIdx(rows, on, key, j + 1)

\* the result rows of the left rows i.., in the order of the left table:
\* one row per matching right row, and for a left row without a match one
\* row with missing right cells unless the join is an inner one
RECURSIVE LeftJoined(_, _, _, _, _)
LeftJoined(left, right, on, how, i) ==
    IF i > Len(left.rows) THEN <<>>
    ELSE LET l == left.rows[i]
             m == MatchIdx(right.rows, on, l[on], 1)
         IN (IF m = <<>> THEN
                 (IF how = "inner" THEN <<>>
                  ELSE <<Combine(left, right, on, l, MissingRow(right.columns))>>)
             ELSE [k \in DOMAIN m |-> Combine(left, right, on, l, right.rows[m[k]])])
            \o LeftJoined(left, right, on, how, i + 1)

\* the result rows of the right rows j.. that match no left row (outer join)
RECURSIVE RightOnly(_, _, _, _)
RightOnly(left, right, on, j) ==
    IF j > Len(right.rows) THEN <<>>
    ELSE LET r == right.rows[j]
         IN (IF MatchIdx(left.rows, on, r[on], 1) = <<>>
             THEN <<Combine(left, right, on,
                            WithCol(MissingRow(left.columns), on, r[on]), r)>>
             ELSE <<>>)
            \o RightOnly(left, right, on, j + 1)

merge(left, right, on, how) ==
    [columns |-> MergedLeftColumns(left, right, on) \cup MergedRightColumns(left, right, on),
     rows |-> LeftJoined(left, right, on, how, 1)
              \o (IF how = "outer" THEN RightOnly(left, right, on, 1) ELSE <<>>)]

----------------------------------------------------------------------------
(* map_visualize.py: merge_data *)

geometries_merge_inner(geometries, data, on) == merge(geometries, data, on, "inner")

geometries_merge_outer(geometries, data, on) == merge(geometries, data, on, "outer")

\* geometries.merge(data, on=on, how='left')
geometries_merge(geometries, data, on) == merge(geometries, data, on, "left")

\* the join of the caller's two tables; a table without the key column
\* makes merge raise KeyError
merge_data(on) ==
    IF on \in gdf.columns /\ on \in df.columns THEN
        /\ merged' = geometries_merge(gdf, df, on)
        /\ call' = [op |-> "merge_data", raised |-> "none", network |-> 0, on |-> on]
        /\ UNCHANGED <<df, gdf, response, files, fetcher>>
    ELSE
        /\ call' = [op |-> "merge_data", raised |-> "KeyError", network |-> 0, on |-> on]
        /\ UNCHANGED <<df, gdf, merged, response, files, fetcher>>

----------------------------------------------------------------------------
(* census_output scripts: the request, the cleaning step and the join *)

\* display names are kept as a sequence of words, the suffix being one word
COUNTY_SUFFIX == " County, Washington"

ISLAND_NAME == Str(<<"Island", COUNTY_SUFFIX>>)

\* Series.str.replace(word, ''), on one cell
str_replace(cell, word) ==
    IF cell.k = "str" THEN Str(SelectSeq(cell.s, LAMBDA w : w # word)) ELSE cell

\* df.dropna(subset=[col])
dropna(t, col) ==
    [columns |-> t.columns, rows |-> SelectSeq(t.rows, LAMBDA r : ~IsNA(r[col]))]

\* the float is greater than zero (NaN compares false)
GreaterThanZero(x) == x.k = "inf" \/ (IsNum(x) /\ x.n > 0)

\* df[df[col] > 0]
positive(t, col) ==
    [columns |-> t.columns, rows |-> SelectSeq(t.rows, LAMBDA r : GreaterThanZero(r[col]))]

\* df[[columns]]
Project(t, columns) ==
    [columns |-> columns,
     rows |-> [i \in DOMAIN t.rows |-> [c \in columns |-> t.rows[i][c]]]]

\* the cells the provider sends for a statistic: a value, the suppression
\* sentinel, or null
VALUE_CELLS == {Str(<<"7", "5", "0", "0", "0">>), SENTINEL, Missing}

WASHINGTON == Str(<<"5", "3">>)

\* 'in': 'state:53 county:029'
ISLAND_COUNTY == Str(<<"0", "2", "9">>)

\* tracts of Island County: one that the boundary file holds and one that
\* it does not
ISLAND_TRACTS == TRACT_CODES \cup {Str(<<"9", "7", "0", "1", "0", "0">>)}

\* the scripts of census_output
SCRIPTS == {"washington_income", "island_county_income_tracts", "washington_education"}

ScriptCode(script) ==
    IF script = "washington_income" THEN "S1903_C03_001E"
    ELSE IF script = "island_county_income_tracts" THEN "B19013_001E"
    ELSE "S1501_C02_015E"

\* the boundary file of a script holds counties of the country, or tracts
\* of Washington
ScriptLevel(script) ==
    IF script = "island_county_income_tracts" THEN "tract" ELSE "county"

\* the ways a request fails: no connection, no answer within timeout=30, a
\* status that raise_for_status() rejects; all are RequestExceptions
REQUEST_EXCEPTIONS == {"ConnectionError", "Timeout", "HTTPError"}

\* the header row of a well-formed body
Header(code, tracts) ==
    <<"NAME", code, "state", "county">> \o (IF tracts THEN <<"tract">> ELSE <<>>)

\* a data row of a well-formed body, as the list of its cells
FullRow(tracts) ==
    <<ISLAND_NAME, Str(<<"7", "5", "0", "0", "0">>), WASHINGTON, ISLAND_COUNTY>>
       \o (IF tracts THEN <<Str(<<"0", "0", "0", "1", "0", "2">>)>> ELSE <<>>)

\* bodies of a 2xx answer that are not a table of the request: text that is
\* not JSON, a JSON object, an empty array, an array whose header lacks the
\* last FIPS column, an array with a row that is too short beside a full
\* row, and an array whose only row is too short
MalformedBodies(code, tracts) ==
    LET header == Header(code, tracts)
        full == FullRow(tracts)
        short == SubSeq(full, 1, Len(full) - 1)
    IN {[k |-> "text"], [k |-> "object"], [k |-> "empty"],
        [k |-> "array", header |-> SubSeq(header, 1, Len(header) - 1), rows |-> <<short>>],
        [k |-> "array", header |-> header, rows |-> <<full, short>>],
        [k |-> "array", header |-> header, rows |-> <<short>>]}

\* the answers to a request for one variable of the counties (or, with
\* tracts, the tracts) of Washington: a failure of the request, a body that
\* is not a table of the request, or a body with a header row (the
\* columns) and up to MaxRows data rows
Responses(code, tracts) ==
    LET geo == IF tracts
               THEN [NAME : {ISLAND_NAME}, state : {WASHINGTON},
                     county : {ISLAND_COUNTY}, tract : ISLAND_TRACTS]
               ELSE [NAME : {ISLAND_NAME}, state : {WASHINGTON}, county : COUNTY_CODES]
        rows == {WithCol(g, code, v) : g \in geo, v \in VALUE_CELLS}
    IN {[outcome |-> x] : x \in REQUEST_EXCEPTIONS}
       \cup {[outcome |-> "malformed", body |-> b] : b \in MalformedBodies(code, tracts)}
       \cup {[outcome |-> "ok",
              table |-> [columns |-> {"NAME", code, "state", "county"}
                                     \cup (IF tracts THEN {"tract"} ELSE {}),
                         rows |-> data]] : data \in SeqsUpTo(rows, MaxRows)}

\* washington_income_map.py fetch_income_data: the returned table, for a
\* body that parsed
washington_income_frame(body) ==
    LET t1 == SetColumn(body, "county_name",
                  [i \in DOMAIN body.rows |-> str_replace(body.rows[i].NAME, COUNTY_SUFFIX)])
        t2 == SetColumn(t1, "median_income",
                  [i \in DOMAIN body.rows |-> to_numeric(body.rows[i].S1903_C03_001E)])
        t3 == SetColumn(t2, "county_fips", [i \in DOMAIN body.rows |-> body.rows[i].county])
        t4 == SetColumn(t3, "state_fips", [i \in DOMAIN body.rows |-> body.rows[i].state])
        t5 == SetColumn(t4, "full_fips",
                  [i \in DOMAIN body.rows |-> text_add(body.rows[i].state, body.rows[i].county)])
    IN Project(dropna(t5, "median_income"),
               {"county_name", "median_income", "full_fips", "county_fips", "state_fips"})

\* island_county_income_tracts_map.py fetch_income_data
island_income_frame(body) ==
    LET t1 == SetColumn(body, "tract_name", [i \in DOMAIN body.rows |-> body.rows[i].NAME])
        t2 == SetColumn(t1, "median_income",
                  [i \in DOMAIN body.rows |-> to_numeric(body.rows[i].B19013_001E)])
        t3 == SetColumn(t2, "tract_fips", [i \in DOMAIN body.rows |-> body.rows[i].tract])
        t4 == SetColumn(t3, "county_fips", [i \in DOMAIN body.rows |-> body.rows[i].county])
        t5 == SetColumn(t4, "state_fips", [i \in DOMAIN body.rows |-> body.rows[i].state])
        t6 == SetColumn(t5, "full_fips",
                  [i \in DOMAIN body.rows |->
                     text_add(text_add(body.rows[i].state, body.rows[i].county),
                            body.rows[i].tract)])
    IN Project(positive(dropna(t6, "median_income"), "median_income"),
               {"tract_name", "median_income", "full_fips", "tract_fips", "county_fips",
                "state_fips"})

\* washington_education_map.py fetch_education_data
washington_education_frame(body) ==
    LET t1 == SetColumn(body, "county_name",
                  [i \in DOMAIN body.rows |-> str_replace(body.rows[i].NAME, COUNTY_SUFFIX)])
        t2 == SetColumn(t1, "pct_college_plus",
                  [i \in DOMAIN body.rows |-> to_numeric(body.rows[i].S1501_C02_015E)])
        t3 == SetColumn(t2, "county_fips", [i \in DOMAIN body.rows |-> body.rows[i].county])
        t4 == SetColumn(t3, "state_fips", [i \in DOMAIN body.rows |-> body.rows[i].state])
        t5 == SetColumn(t4, "full_fips",
                  [i \in DOMAIN body.rows |-> text_add(body.rows[i].state, body.rows[i].county)])
    IN Project(dropna(t5, "pct_college_plus"),
               {"county_name", "pct_college_plus", "full_fips", "county_fips", "state_fips"})

\* the table a script's fetch function returns for a parsed body
fetch_frame(script, body) ==
    IF script = "washington_income" THEN washington_income_frame(body)
    ELSE IF script = "island_county_income_tracts" THEN island_income_frame(body)
    ELSE washington_education_frame(body)

\* the columns the cleaning step of a script reads
RequiredColumns(script) ==
    {"NAME", ScriptCode(script), "state", "county"}
       \cup (IF ScriptLevel(script) = "tract" THEN {"tract"} ELSE {})

\* the widest row
RECURSIVE Width(_)
Width(rows) ==
    IF Len(rows) = 0 THEN 0
    ELSE LET w == Width(Tail(rows))
         IN IF Len(rows[1]) > w THEN Len(rows[1]) ELSE w

\* pd.DataFrame(rows, columns=header) on lists of cells: a shorter row is
\* filled with None up to the widest row
DataFrameOf(rows, header) ==
    [columns |-> {header[c] : c \in DOMAIN header},
     rows |-> [i \in DOMAIN rows |->
                 [col \in {header[c] : c \in DOMAIN header} |->
                     LET c == CHOOSE c \in DOMAIN header : header[c] = col
                     IN IF c <= Len(rows[i]) THEN rows[i][c] ELSE Missing]]]

\* what the try block does with a body that is not a table of the request:
\* response.json() raises JSONDecodeError (a RequestException) on text;
\* data[1:] raises TypeError on an object; data[0] raises IndexError on an
\* empty array; pd.DataFrame raises ValueError when the widest row is not
\* as wide as the header; df[col] raises KeyError for a column the header
\* lacks; otherwise the table is built
body_outcome(script, body) ==
    IF body.k = "text" THEN "JSONDecodeError"
    ELSE IF body.k = "object" THEN "TypeError"
    ELSE IF body.k = "empty" THEN "IndexError"
    ELSE IF Len(body.rows) > 0 /\ Width(body.rows) # Len(body.header) THEN "ValueError"
    ELSE IF ~(RequiredColumns(script) \subseteq {body.header[c] : c \in DOMAIN body.header})
    THEN "KeyError"
    ELSE "table"

\* the fetch function returns None, after the given number of requests
fetch_none(script, resp, requests) ==
    /\ response' = resp
    /\ call' = [op |-> "fetch_data", script |-> script, raised |-> "none",
                network |-> requests, returned |-> "None"]
    /\ UNCHANGED <<df, gdf, merged, files, fetcher>>

\* the fetch function returns its cleaned table
fetch_table(script, resp, table) ==
    /\ response' = resp
    /\ df' = fetch_frame(script, table)
    /\ call' = [op |-> "fetch_data", script |-> script, raised |-> "none",
                network |-> 1, returned |-> "table"]
    /\ UNCHANGED <<gdf, merged, files, fetcher>>

\* an exception that is no RequestException leaves the fetch function
fetch_raises(script, resp, exception) ==
    /\ response' = resp
    /\ call' = [op |-> "fetch_data", script |-> script, raised |-> exception,
                network |-> 1, returned |-> "nothing"]
    /\ UNCHANGED <<df, gdf, merged, files, fetcher>>

\* a fetch function that asks once more when the request has failed
fetch_data_retried(script, resp) ==
    IF resp.outcome \in REQUEST_EXCEPTIONS THEN fetch_none(script, resp, 2)
    ELSE IF resp.outcome = "ok" THEN fetch_table(script, resp, resp.table)
    ELSE IF body_outcome(script, resp.body) = "JSONDecodeError" THEN fetch_none(script, resp, 1)
    ELSE IF body_outcome(script, resp.body) = "table"
    THEN fetch_table(script, resp, DataFrameOf(resp.body.rows, resp.body.header))
    ELSE fetch_raises(script, resp, body_outcome(script, resp.body))

\* the fetch function of a script: one GET; a RequestException is caught
\* and None is returned; any other exception propagates
fetch_data(script, resp) ==
    IF resp.outcome \in REQUEST_EXCEPTIONS THEN fetch_none(script, resp, 1)
    ELSE IF resp.outcome = "ok" THEN fetch_table(script, resp, resp.table)
    ELSE IF body_outcome(script, resp.body) = "JSONDecodeError" THEN fetch_none(script, resp, 1)
    ELSE IF body_outcome(script, resp.body) = "table"
    THEN fetch_table(script, resp, DataFrameOf(resp.body.rows, resp.body.header))
    ELSE fetch_raises(script, resp, body_outcome(script, resp.body))

----------------------------------------------------------------------------
(* census_output scripts: create_map *)

WriteFile(fs, name, content) ==
    [n \in (DOMAIN fs) \cup {name} |-> IF n = name THEN content ELSE fs[n]]

\* counties[counties['STATEFP'] == '53'], tracts[tracts['COUNTYFP'] == '029']
script_filter(script, t) ==
    [columns |-> t.columns,
     rows |-> IF script = "island_county_income_tracts"
              THEN SelectSeq(t.rows, LAMBDA r : r.COUNTYFP = Str(<<"0", "2", "9">>))
              ELSE SelectSeq(t.rows, LAMBDA r : r.STATEFP = WASHINGTON)]

\* a key column composed county first
script_full_fips_swapped(script, row) ==
    IF script = "island_county_income_tracts"
    THEN Concat(Concat(row.COUNTYFP, row.STATEFP), row.TRACTCE)
    ELSE Concat(row.COUNTYFP, row.STATEFP)

\* the script's own key column of the geometry table
script_full_fips(script, row) ==
    IF script = "island_county_income_tracts"
    THEN Concat(Concat(row.STATEFP, row.COUNTYFP), row.TRACTCE)
    ELSE Concat(row.STATEFP, row.COUNTYFP)

\* washington_counties.merge(df, on='full_fips', how='left')
counties_merge(counties, data) == merge(counties, data, "full_fips", "left")

\* a create_map that saves the figure before it draws on it
create_map_saves_first(script, shp) ==
    /\ files' = WriteFile(files, script \o "_map.png", df)
    /\ call' = [op |-> "create_map", script |-> script, raised |-> "none", network |-> 1,
                returned |-> IF shp.outcome = "ok" THEN "table" ELSE "None"]
    /\ UNCHANGED <<df, gdf, merged, response, fetcher>>

\* shp: the boundary file as read, or the failure of the read.  Any
\* exception is caught and None is returned; otherwise the map is drawn from
\* the joined table, saved as a PNG and the joined table is returned.
create_map(script, shp) ==
    IF shp.outcome # "ok" THEN
        /\ call' = [op |-> "create_map", script |-> script, raised |-> "none",
                    network |-> 1, returned |-> "None"]
        /\ UNCHANGED <<df, gdf, merged, response, files, fetcher>>
    ELSE
        LET filtered == script_filter(script, read_file(ScriptLevel(script), shp.features))
            keyed == SetColumn(filtered, "full_fips",
                         [i \in DOMAIN filtered.rows |->
                            script_full_fips(script, filtered.rows[i])])
            joined == counties_merge(keyed, df)
        IN /\ gdf' = keyed
           /\ merged' = SetColumn(joined, "coords",
                            [i \in DOMAIN joined.rows |->
                               [k |-> "point", of |-> joined.rows[i].geometry.id]])
           /\ files' = WriteFile(files, script \o "_map.png", joined)
           /\ call' = [op |-> "create_map", script |-> script, raised |-> "none",
                       network |-> 1, returned |-> "table"]
           /\ UNCHANGED <<df, response, fetcher>>

----------------------------------------------------------------------------
(* The join, at its two call sites: merge_data on a loaded geometry table  *)
(* and a caller's metric table, and the scripts' fetch and create_map in   *)
(* the order main() runs them.                                             *)

\* the GEOID cells of a caller's metric table: county GEOIDs, or none
DATA_GEOIDS == {Concat(st, co) : st \in STATE_CODES, co \in COUNTY_CODES} \cup {Missing}

DataRows == [GEOID : DATA_GEOIDS, NAME : {Str(<<"n">>)}, B01003_001E : {Str(<<"7">>)}]

\* load_geometries('county') on a file, as load_geometries leaves it
LoadedCounties(features) ==
    LET t == read_file("county", features)
    IN SetColumn(t, "GEOID", [i \in DOMAIN t.rows |-> gdf_geoid("county", t.rows[i])])

InitMerge ==
    /\ pc = "merge"
    /\ \E features \in SeqsUpTo(ShapeRows("county"), MaxRows) :
          gdf = LoadedCounties(features)
    /\ \E data \in SeqsUpTo(DataRows, MaxRows) :
          df = [columns |-> {"GEOID", "NAME", "B01003_001E"}, rows |-> data]
    /\ merged = EmptyFrame
    /\ call = NoCall
    /\ response = NoResponse
    /\ files = NoFiles
    /\ fetcher = NoFetcher

InitScript ==
    /\ pc = "fetch_data"
    /\ df = EmptyFrame
    /\ gdf = EmptyFrame
    /\ merged = EmptyFrame
    /\ call = NoCall
    /\ response = NoResponse
    /\ files = NoFiles
    /\ fetcher = NoFetcher

MergeData ==
    /\ pc = "merge"
    /\ \E on \in {"GEOID", "full_fips"} : merge_data(on)
    /\ pc' = IF Raised' THEN "aborted" ELSE "merged"

\* df = fetch_...(); if df is None: return
FetchData ==
    /\ pc = "fetch_data"
    /\ \E script \in SCRIPTS :
          \E resp \in Responses(ScriptCode(script), ScriptLevel(script) = "tract") :
              fetch_data(script, resp)
    /\ pc' = IF Raised' THEN "crashed"
             ELSE IF call'.returned = "None" THEN "exit" ELSE "create_map"

\* map_data = create_map(df, output_dir); if map_data is None: return
CreateMap ==
    /\ pc = "create_map"
    /\ \E shp \in {[outcome |-> "error"]}
                  \cup {[outcome |-> "ok", features |-> f] :
                          f \in SeqsUpTo(ShapeRows(ScriptLevel(call.script)), MaxRows)} :
          create_map(call.script, shp)
    /\ pc' = IF call'.returned = "None" THEN "exit" ELSE "save_data"

InitJoin == InitMerge \/ InitScript

NextJoin == MergeData \/ FetchData \/ CreateMap

SpecJoin == InitJoin /\ [][NextJoin]_vars

----------------------------------------------------------------------------
(* map_visualize.py: create_summary_stats *)

\* exact a < b and a + b for numbers
Less(a, b) == a.n * b.d < b.n * a.d

Add(a, b) == Num(a.n * b.d + b.n * a.d, a.d * b.d)

RECURSIVE Sum(_)
Sum(values) == IF values = <<>> THEN Num(0, 1) ELSE Add(Head(values), Sum(Tail(values)))

Min(values) ==
    values[CHOOSE i \in DOMAIN values : \A j \in DOMAIN values : ~Less(values[j], values[i])]

Max(values) ==
    values[CHOOSE i \in DOMAIN values : \A j \in DOMAIN values : ~Less(values[i], values[j])]

\* pd.to_numeric(df[col], errors='coerce').dropna(): the summarised series
summary_data(t, col) ==
    SelectSeq([i \in DOMAIN t.rows |-> to_numeric(t.rows[i][col])], LAMBDA x : ~IsNA(x))

\* the block the report has for a column; a column the table lacks, or one
\* without a single number, has none.  The median, the standard deviation
\* and the percentiles are further functions of the same series.
RECURSIVE summary_blocks(_, _)
summary_blocks(t, columns) ==
    IF columns = <<>> THEN <<>>
    ELSE LET col == Head(columns)
             data == IF col \in t.columns THEN summary_data(t, col) ELSE <<>>
         IN (IF data = <<>> THEN <<>>
             ELSE <<[column |-> col, data |-> data, Count |-> Len(data),
                     Mean |-> Div(Sum(data), Num(Len(data), 1)),
                     Min |-> Min(data), Max |-> Max(data)]>>)
            \o summary_blocks(t, Tail(columns))

\* writes the report of the caller's table and returns its path
create_summary_stats(columns, filename) ==
    /\ files' = WriteFile(files, filename,
                          [records |-> Len(df.rows), blocks |-> summary_blocks(df, columns)])
    /\ call' = [op |-> "create_summary_stats", raised |-> "none", network |-> 0,
                filename |-> filename]
    /\ UNCHANGED <<df, gdf, merged, response, fetcher>>

----------------------------------------------------------------------------
(* The cleaning steps: the fetch functions of the scripts, and the report  *)
(* of a table that fetch_state_data returned.                              *)

StateRows ==
    [NAME : {Str(<<"n">>)}, B01003_001E : VALUE_CELLS, state : STATE_CODES]

InitStats ==
    /\ pc = "summary"
    /\ \E data \in SeqsUpTo(StateRows, MaxRows) :
          /\ Len(data) > 0
          /\ df = SetColumn(DataFrame(data), "GEOID",
                            [i \in DOMAIN data |-> state_geoid(data[i])])
    /\ gdf = EmptyFrame
    /\ merged = EmptyFrame
    /\ call = NoCall
    /\ response = NoResponse
    /\ files = NoFiles
    /\ fetcher = Fetcher(Str(<<"a">>))

CreateSummaryStats ==
    /\ pc = "summary"
    /\ create_summary_stats(<<"B01003_001E", "density">>, "summary_statistics.txt")
    /\ pc' = "done"

InitClean == InitScript \/ InitStats

NextClean == FetchData \/ CreateSummaryStats

SpecClean == InitClean /\ [][NextClean]_vars

----------------------------------------------------------------------------
(* Join claims *)

\* a join has returned: gdf is its geometry table, df its metric table and
\* merged its result
Joined ==
    \/ pc = "merged" /\ call.op = "merge_data"
    \/ pc = "save_data" /\ call.op = "create_map"

JoinKey == IF call.op = "merge_data" THEN call.on ELSE "full_fips"

\* the result rows that carry the polygon of geometry row i
RowsOf(i) == {k \in DOMAIN merged.rows : merged.rows[k].geometry = gdf.rows[i].geometry}

MetricKeys == {df.rows[j][JoinKey] : j \in DOMAIN df.rows}

GeometryKeys == {gdf.rows[i][JoinKey] : i \in DOMAIN gdf.rows}

\* the columns of the result that come from the metric table
MetricColumns == MergedRightColumns(gdf, df, JoinKey)

\* C3: whatever the keys of the metric table, duplicates and missing keys
\* included, each geometry row appears in the result exactly once (stated
\* as the claim has it; the code repeats a geometry row once per metric row
\* with its key).
C3_EachGeometryOnce ==
    Joined => \A i \in DOMAIN gdf.rows : Cardinality(RowsOf(i)) = 1

\* C4: when the keys of the metric table are distinct and a strict subset
\* of the geometry keys, the result has exactly the N geometry rows, in
\* their order, and each geometry row without a metric row is kept with
\* every metric column missing.
C4_SubsetKeepsAllRows ==
    (/\ Joined
     /\ Cardinality(MetricKeys) = Len(df.rows)
     /\ MetricKeys \subseteq GeometryKeys
     /\ MetricKeys # GeometryKeys)
    => /\ Len(merged.rows) = Len(gdf.rows)
       /\ \A i \in DOMAIN gdf.rows :
             /\ merged.rows[i].geometry = gdf.rows[i].geometry
             /\ merged.rows[i][JoinKey] = gdf.rows[i][JoinKey]
             /\ gdf.rows[i][JoinKey] \notin MetricKeys
                    => \A c \in MetricColumns : merged.rows[i][c] = Missing

C4_Witness ==
    /\ Joined
    /\ call.op = "merge_data"
    /\ Len(gdf.rows) = 2
    /\ Len(df.rows) = 1
    /\ MetricKeys \subseteq GeometryKeys
    /\ MetricKeys # GeometryKeys
    /\ Len(merged.rows) = 2
    /\ \E i \in DOMAIN merged.rows :
          /\ merged.rows[i].B01003_001E = Missing
          /\ merged.rows[i].GEOID = Str(<<"5", "3", "0", "2", "9">>)

\* C10: every row of the result carries the key and the polygon of a
\* geometry row; a metric row whose key no geometry has yields no row.
C10_OnlyGeometryRows ==
    Joined => \A k \in DOMAIN merged.rows :
                  \E i \in DOMAIN gdf.rows :
                      /\ merged.rows[k][JoinKey] = gdf.rows[i][JoinKey]
                      /\ merged.rows[k].geometry = gdf.rows[i].geometry

C10_Witness ==
    /\ Joined
    /\ call.op = "merge_data"
    /\ Len(merged.rows) > 0
    /\ \E j \in DOMAIN df.rows :
          /\ df.rows[j].GEOID = Str(<<"5", "3", "0", "2", "9">>)
          /\ df.rows[j].GEOID \notin GeometryKeys
          /\ \A k \in DOMAIN merged.rows : merged.rows[k].GEOID # df.rows[j].GEOID

----------------------------------------------------------------------------
(* Cleaning claims *)

\* the name of the statistic in the table a script's fetch returns
ValueColumn(script) ==
    IF script = "washington_education" THEN "pct_college_plus" ELSE "median_income"

\* the fetch function of a script has returned its cleaned table
Cleaned == pc = "create_map" /\ call.op = "fetch_data"

\* create_summary_stats has written its report
Summarised == pc = "done" /\ call.op = "create_summary_stats"

\* C6: no row of a cleaned table holds the suppression sentinel as its
\* statistic, and no report summarises it (stated as the claim has it; only
\* the tract script filters negative values: the two county scripts and
\* the report keep the sentinel as a number).
C6_SentinelExcluded ==
    /\ Cleaned => \A i \in DOMAIN df.rows :
                      df.rows[i][ValueColumn(call.script)] # to_numeric(SENTINEL)
    /\ Summarised =>
           \A b \in DOMAIN files[call.filename].blocks :
               /\ \A i \in DOMAIN files[call.filename].blocks[b].data :
                      files[call.filename].blocks[b].data[i] # to_numeric(SENTINEL)
               /\ files[call.filename].blocks[b].Min # to_numeric(SENTINEL)

\* the same, for the tract script alone, whose cleaning step also drops the
\* rows that are not greater than zero
C6_TractScriptExcludes ==
    (Cleaned /\ call.script = "island_county_income_tracts")
    => \A i \in DOMAIN df.rows : GreaterThanZero(df.rows[i].median_income)

----------------------------------------------------------------------------
(* The ingestion steps of a pipeline, in the order main() runs them: the   *)
(* metric fetch, then the geometry load.  An exception ends the run.       *)

InitGeoid ==
    /\ pc = "fetch"
    /\ df = EmptyFrame
    /\ gdf = EmptyFrame
    /\ merged = EmptyFrame
    /\ call = NoCall
    /\ response = NoResponse
    /\ files = NoFiles
    /\ fetcher = Fetcher(Str(<<"a">>))

FetchState ==
    /\ pc = "fetch"
    /\ \E data \in SeqsUpTo(ApiRows("state"), MaxRows) : fetch_state_data(data)
    /\ pc' = IF Raised' THEN "aborted" ELSE "load"

FetchCounty ==
    /\ pc = "fetch"
    /\ \E data \in SeqsUpTo(ApiRows("county"), MaxRows) : fetch_county_data(data)
    /\ pc' = IF Raised' THEN "aborted" ELSE "load"

FetchTract ==
    /\ pc = "fetch"
    /\ \E data \in SeqsUpTo(ApiRows("tract"), MaxRows) : fetch_tract_data(data)
    /\ pc' = IF Raised' THEN "aborted" ELSE "load"

LoadGeometries ==
    /\ pc = "load"
    /\ \E level \in LEVEL_ARGS, state \in STATE_ARGS :
          \E features \in SeqsUpTo(ShapeRows(IF level \in LEVELS THEN level ELSE "state"),
                                   MaxRows) :
              load_geometries(level, state, features)
    /\ pc' = IF Raised' THEN "aborted" ELSE "merge"

NextGeoid == FetchState \/ FetchCounty \/ FetchTract \/ LoadGeometries

SpecGeoid == InitGeoid /\ [][NextGeoid]_vars

----------------------------------------------------------------------------
(* GEOID claims *)

ApiLevel(row) ==
    IF "tract" \in DOMAIN row THEN "tract"
    ELSE IF "county" \in DOMAIN row THEN "county" ELSE "state"

ShapeLevel(row) ==
    IF "TRACTCE" \in DOMAIN row THEN "tract"
    ELSE IF "COUNTYFP" \in DOMAIN row THEN "county" ELSE "state"

\* a metric row and a geometry row of the same level with equal components
SameUnit(r, g) ==
    /\ ApiLevel(r) = ShapeLevel(g)
    /\ r.state = g.STATEFP
    /\ ApiLevel(r) # "state" => r.county = g.COUNTYFP
    /\ ApiLevel(r) = "tract" => r.tract = g.TRACTCE

\* C1: at every level, a fetched row and a loaded geometry whose FIPS
\* components are equal carry the same GEOID string.
C1_GeoidAgree ==
    \A i \in DOMAIN df.rows, j \in DOMAIN gdf.rows :
        SameUnit(df.rows[i], gdf.rows[j]) => df.rows[i].GEOID = gdf.rows[j].GEOID

C1_Witness ==
    /\ pc = "merge"
    /\ \E i \in DOMAIN df.rows, j \in DOMAIN gdf.rows :
          /\ SameUnit(df.rows[i], gdf.rows[j])
          /\ ApiLevel(df.rows[i]) = "tract"
          /\ gdf.rows[j].GEOID.s = <<"5", "3", "0", "2", "9", "0", "0", "0", "1", "0", "2">>

\* C2: the fetcher's GEOID is state (2 chars), state + county (5 chars) or
\* state + county + tract (11 chars), in that order, with no separator and
\* with every character of every component kept, leading zeros included.
C2_GeoidComposition ==
    \A i \in DOMAIN df.rows :
        LET r == df.rows[i]
            g == r.GEOID.s
        IN /\ ApiLevel(r) = "state" => Len(g) = 2
           /\ ApiLevel(r) = "county" => Len(g) = 5
           /\ ApiLevel(r) = "tract" => Len(g) = 11
           /\ SubSeq(g, 1, 2) = r.state.s
           /\ ApiLevel(r) # "state" => SubSeq(g, 3, 5) = r.county.s
           /\ ApiLevel(r) = "tract" => SubSeq(g, 6, 11) = r.tract.s

C2_Witness ==
    \E i \in DOMAIN df.rows :
        /\ call.op = "fetch_tract_data"
        /\ df.rows[i].state.s = <<"0", "1">>
        /\ df.rows[i].GEOID.s = <<"0", "1", "0", "0", "1", "0", "0", "0", "1", "0", "2">>

----------------------------------------------------------------------------
(* The ratio calculator applied to tables of raw cells: the share of       *)
(* bachelor's degrees (B15003_022E) in the population of 25 and over       *)
(* (B15003_001E).                                                          *)

NUMERATOR_CELLS ==
    {Str(<<"5", "0">>), Num(50, 1), Str(<<"0">>), NOT_AVAILABLE, SENTINEL, Missing}

DENOMINATOR_CELLS == {Str(<<"2", "0", "0">>), Str(<<"0">>), NOT_AVAILABLE, SENTINEL}

RatioRows == [B15003_022E : NUMERATOR_CELLS, B15003_001E : DENOMINATOR_CELLS]

\* the column names a caller passes; B15003_023E is not in the table
COLUMN_ARGS == {"B15003_022E", "B15003_001E", "B15003_023E"}

InitRatio ==
    /\ pc = "derive"
    /\ \E rows \in SeqsUpTo(RatioRows, MaxRows) :
          df = [columns |-> {"B15003_022E", "B15003_001E"}, rows |-> rows]
    /\ gdf = EmptyFrame
    /\ merged = EmptyFrame
    /\ call = NoCall
    /\ response = NoResponse
    /\ files = NoFiles
    /\ fetcher = Fetcher(Str(<<"a">>))

\* the names a caller passes for the result: a new column, or the name of
\* a column the table has
RESULT_ARGS == {"pct_bachelors", "B15003_001E"}

CalculatePercentage ==
    /\ pc = "derive"
    /\ \E numerator_col \in COLUMN_ARGS, denominator_col \in COLUMN_ARGS :
          \E result_col \in RESULT_ARGS :
             calculate_percentage(numerator_col, denominator_col, result_col)
    /\ pc' = IF Raised' THEN "aborted" ELSE "done"

NextRatio == CalculatePercentage

SpecRatio == InitRatio /\ [][NextRatio]_vars

----------------------------------------------------------------------------
(* Ratio claims *)

\* calculate_percentage has returned
Derived == pc = "done" /\ call.op = "calculate_percentage"

NumeratorCell(i) == call.table.rows[i][call.numerator_col]

DenominatorCell(i) == call.table.rows[i][call.denominator_col]

ResultCell(i) == df.rows[i][call.result_col]

\* the cell is a number, or text made of an optional minus sign and digits
IsNumeric(cell) ==
    \/ cell.k = "num"
    \/ /\ cell.k = "str"
       /\ LET u == IF Len(cell.s) > 0 /\ cell.s[1] = "-" THEN Tail(cell.s) ELSE cell.s
          IN Len(u) > 0 /\ \A i \in DOMAIN u : u[i] \in {DIGITS[v] : v \in DOMAIN DIGITS}

\* the cell is text with a character no number has
IsNonNumericText(cell) ==
    /\ cell.k = "str"
    /\ \E i \in DOMAIN cell.s :
          cell.s[i] \notin {DIGITS[v] : v \in DOMAIN DIGITS} \cup {"-", "+", "."}

\* the cell is zero: the number 0, or text of zeros only
IsZero(cell) ==
    \/ cell.k = "num" /\ cell.n = 0
    \/ cell.k = "str" /\ Len(cell.s) > 0 /\ \A i \in DOMAIN cell.s : cell.s[i] = "0"

\* the cell is a negative number, as the suppression sentinel is
IsNegative(cell) ==
    \/ cell.k = "num" /\ cell.n < 0
    \/ IsNumeric(cell) /\ cell.k = "str" /\ cell.s[1] = "-" /\ ~IsZero(Str(Tail(cell.s)))

RECURSIVE CancelInto(_, _, _)
CancelInto(x, ys, j) ==
    IF j > Len(ys) THEN <<x, ys>>
    ELSE LET g == Gcd(x, ys[j])
         IN CancelInto(x \div g, [ys EXCEPT ![j] = ys[j] \div g], j + 1)

RECURSIVE CancelAll(_, _, _)
CancelAll(xs, ys, i) ==
    IF i > Len(xs) THEN <<xs, ys>>
    ELSE LET c == CancelInto(xs[i], ys, 1)
         IN CancelAll([xs EXCEPT ![i] = c[1]], c[2], i + 1)

\* the products of two lists of positive integers are equal (decided by
\* cancelling common factors, so that no product is formed)
SameProduct(xs, ys) ==
    LET c == CancelAll(xs, ys, 1)
    IN /\ \A i \in DOMAIN c[1] : c[1][i] = 1
       /\ \A j \in DOMAIN c[2] : c[2][j] = 1

\* the integer a numeric cell stands for, as sign and magnitude
Magnitude(cell) ==
    IF cell.k = "num" THEN Abs(cell.n)
    ELSE NatOf(IF cell.s[1] = "-" THEN Tail(cell.s) ELSE cell.s)

SignOf(cell) == IF IsZero(cell) THEN 0 ELSE IF IsNegative(cell) THEN -1 ELSE 1

\* r = num / den * 100 for integer cells num and den # 0
IsPercentageOf(r, num, den) ==
    /\ IsNum(r)
    /\ IF IsZero(num) THEN r.n = 0
       ELSE /\ (IF r.n > 0 THEN 1 ELSE -1) = SignOf(num) * SignOf(den)
            /\ r.n # 0
            /\ SameProduct(<<Abs(r.n), Magnitude(den)>>, <<100, Magnitude(num), r.d>>)

\* C5: a row whose denominator is zero gets a missing result, whatever the
\* numerator is (stated as the claim has it; the code yields infinity).
C5_ZeroDenominatorMissing ==
    Derived => \A i \in DOMAIN df.rows :
                   IsZero(DenominatorCell(i)) => IsNA(ResultCell(i))

\* C7: a row whose numerator or denominator is the negative sentinel, or
\* whose denominator is not positive, gets a missing result (stated as the
\* claim has it; the code divides the sentinel like any number).
C7_SentinelMissing ==
    Derived => \A i \in DOMAIN df.rows :
                   (\/ IsNegative(NumeratorCell(i))
                    \/ IsNegative(DenominatorCell(i))
                    \/ IsZero(DenominatorCell(i))) => IsNA(ResultCell(i))

\* C8: the call raises nothing when the table holds non-numeric text; each
\* row with such text as numerator or denominator gets a missing result,
\* and the rows of the same table with numeric operands and a non-zero
\* denominator get a number.
C8_TextIsMissing ==
    (call.op = "calculate_percentage"
        /\ {call.numerator_col, call.denominator_col} \subseteq call.table.columns)
    => /\ call.raised = "none"
       /\ pc = "done"
       /\ Len(df.rows) = Len(call.table.rows)
       /\ \A i \in DOMAIN df.rows :
             /\ (IsNonNumericText(NumeratorCell(i)) \/ IsNonNumericText(DenominatorCell(i)))
                    => ResultCell(i) = NaN
             /\ (IsNumeric(NumeratorCell(i)) /\ IsNumeric(DenominatorCell(i))
                    /\ ~IsZero(DenominatorCell(i))) => IsNum(ResultCell(i))

C8_Witness ==
    /\ Derived
    /\ \E i, j \in DOMAIN df.rows :
          /\ NumeratorCell(i) = NOT_AVAILABLE
          /\ DenominatorCell(i) = Str(<<"2", "0", "0">>)
          /\ ResultCell(i) = NaN
          /\ NumeratorCell(j) = Str(<<"5", "0">>)
          /\ ResultCell(j) = Num(25, 1)

\* C9: a row with numeric operands and a non-zero denominator gets
\* numerator / denominator * 100 under the result column, for operands that
\* are numbers and for operands that are numeric text.
C9_Percentage ==
    Derived => \A i \in DOMAIN df.rows :
                   (IsNumeric(NumeratorCell(i)) /\ IsNumeric(DenominatorCell(i))
                       /\ ~IsZero(DenominatorCell(i)))
                   => IsPercentageOf(ResultCell(i), NumeratorCell(i), DenominatorCell(i))

C9_Witness ==
    /\ Derived
    /\ \E i, j \in DOMAIN df.rows :
          /\ NumeratorCell(i) = Num(50, 1)
          /\ NumeratorCell(j) = Str(<<"5", "0">>)
          /\ DenominatorCell(i) = Str(<<"2", "0", "0">>)
          /\ DenominatorCell(j) = Str(<<"2", "0", "0">>)
          /\ ResultCell(i) = Num(25, 1)
          /\ ResultCell(j) = Num(25, 1)

----------------------------------------------------------------------------
(* The scripts' fetch and create_map, end to end *)

\* create_map of a script has returned the enriched table, for a body that
\* was a table of the request
Enriched == pc = "save_data" /\ call.op = "create_map" /\ response.outcome = "ok"

\* the variable the script of the run requested
RequestedCode == ScriptCode(call.script)

\* row j of the provider's answer
MetricRow(j) == response.table.rows[j]

\* the FIPS components of metric row j and of geometry row i are equal
SameComponents(j, i) ==
    /\ MetricRow(j).state = gdf.rows[i].STATEFP
    /\ MetricRow(j).county = gdf.rows[i].COUNTYFP
    /\ ScriptLevel(call.script) = "tract" => MetricRow(j).tract = gdf.rows[i].TRACTCE

\* the GEOID of the unit of metric row j: its components, broadest first
ComposedGeoid(j) ==
    IF ScriptLevel(call.script) = "tract"
    THEN Str(MetricRow(j).state.s \o MetricRow(j).county.s \o MetricRow(j).tract.s)
    ELSE Str(MetricRow(j).state.s \o MetricRow(j).county.s)

\* the cell is an estimate: numeric text that is not a negative code
IsEstimate(cell) == cell # Missing /\ IsNumeric(cell) /\ ~IsNegative(cell)

\* no other row of the answer is about the unit of metric row j
OnlyRowOfUnit(j) ==
    \A j2 \in DOMAIN response.table.rows :
       j2 # j => ComposedGeoid(j2) # ComposedGeoid(j)

\* C11: for every row of the provider's answer that carries an estimate and
\* every geometry row with the same FIPS components, the enriched table has
\* a record with that geometry, the composed GEOID and the estimate as a
\* number; it is the only record of that geometry when the answer has one
\* row for the unit.  (Geometry rows are those the script's filter keeps:
\* a row outside the filter has a component no metric row has.)
C11_MatchedPairEnriched ==
    Enriched =>
       \A j \in DOMAIN response.table.rows :
          \A i \in DOMAIN gdf.rows :
             (SameComponents(j, i) /\ IsEstimate(MetricRow(j)[RequestedCode])) =>
                /\ \E k \in RowsOf(i) :
                      /\ merged.rows[k].full_fips = ComposedGeoid(j)
                      /\ merged.rows[k][ValueColumn(call.script)]
                            = Num(Magnitude(MetricRow(j)[RequestedCode]), 1)
                /\ OnlyRowOfUnit(j) => Cardinality(RowsOf(i)) = 1

\* state "53", county "029", "75000" joined to STATEFP "53", COUNTYFP "029":
\* one record with full_fips "53029" and median_income 75000.0
C11_Witness ==
    /\ Enriched
    /\ call.script = "washington_income"
    /\ \E j \in DOMAIN response.table.rows :
          \E i \in DOMAIN gdf.rows :
             /\ MetricRow(j).state = Str(<<"5", "3">>)
             /\ MetricRow(j).county = Str(<<"0", "2", "9">>)
             /\ MetricRow(j)[RequestedCode] = Str(<<"7", "5", "0", "0", "0">>)
             /\ SameComponents(j, i)
             /\ Cardinality(RowsOf(i)) = 1
             /\ \A k \in RowsOf(i) :
                   /\ merged.rows[k].full_fips = Str(<<"5", "3", "0", "2", "9">>)
                   /\ merged.rows[k].median_income = Num(75000, 1)

----------------------------------------------------------------------------
(* The fetcher from its construction on: census_fetch.py main() constructs *)
(* it and fetches; a caller may look categories up in between.  An         *)
(* exception ends the run.                                                 *)

\* category arguments: the categories of the catalog, and names it lacks
CATEGORY_ARGS ==
    {Catalog[i][1] : i \in DOMAIN Catalog} \cup {"", "Income", "incomes", "poverty"}

InitFetcher ==
    /\ pc = "construct"
    /\ df = EmptyFrame
    /\ gdf = EmptyFrame
    /\ merged = EmptyFrame
    /\ call = NoCall
    /\ response = NoResponse
    /\ files = NoFiles
    /\ fetcher = NoFetcher

Construct ==
    /\ pc = "construct"
    /\ \E api_key \in API_KEYS : \E env \in API_KEYS : CensusDataFetcher(api_key, env)
    /\ pc' = IF Raised' THEN "aborted" ELSE "fetch"

GetVariablesForCategory ==
    /\ pc = "fetch"
    /\ \E category \in CATEGORY_ARGS : get_variables_for_category(category)
    /\ pc' = IF Raised' THEN "aborted" ELSE "fetch"

NextFetcher ==
    Construct \/ GetVariablesForCategory \/ FetchState \/ FetchCounty \/ FetchTract

SpecFetcher == InitFetcher /\ [][NextFetcher]_vars

----------------------------------------------------------------------------
(* Fetcher claims *)

\* get_variables_for_category has just run on a category the catalog lacks
UnknownCategory ==
    /\ call.op = "get_variables_for_category"
    /\ \A i \in DOMAIN Catalog : Catalog[i][1] # call.category

\* the categories a message lists after "Available: "
Available(message) == {message[p] : p \in 4 .. Len(message)} \ {", "}

\* C12: a lookup of a category that the catalog lacks raises ValueError
\* with a message that names the category asked for and lists every
\* category of the catalog, returns nothing, and the catalog is what it was.
C12_UnknownCategoryListsAll ==
    UnknownCategory =>
       /\ call.raised = "ValueError"
       /\ pc = "aborted"
       /\ "returned" \notin DOMAIN call
       /\ call.message[1] = "Unknown category '"
       /\ call.message[2] = call.category
       /\ Available(call.message) = {Catalog[i][1] : i \in DOMAIN Catalog}
       /\ fetcher.catalog = Catalog

\* the lookup leaves the fetcher, its catalog included, as it was
C12_CatalogUnchanged ==
    [][call'.op = "get_variables_for_category" => fetcher' = fetcher]_vars

C12_Witness ==
    /\ UnknownCategory
    /\ call.category = "poverty"
    /\ call.raised = "ValueError"
    /\ Len(call.message) = 16
    /\ "income" \in Available(call.message)

\* the constructor has just run
Constructing == call.op = "CensusDataFetcher"

\* neither the argument nor CENSUS_API_KEY holds a key
NoCredential == ~truthy(call.api_key) /\ ~truthy(call.env)

\* C15: constructed with no api_key (or an empty one) while CENSUS_API_KEY
\* is unset or empty, the fetcher raises ValueError with no API client
\* created and nothing read from the network, and the run ends; with a key
\* from either source the construction succeeds, the argument taking
\* precedence.  No network read is ever made without a client.
C15_CredentialRequired ==
    /\ (Constructing /\ NoCredential) =>
          /\ call.raised = "ValueError"
          /\ fetcher.census = None
          /\ call.network = 0
          /\ pc = "aborted"
    /\ (Constructing /\ ~NoCredential) =>
          /\ call.raised = "none"
          /\ fetcher.api_key = (IF truthy(call.api_key) THEN call.api_key ELSE call.env)
          /\ fetcher.census = Census(fetcher.api_key)
          /\ call.network = 0
    /\ call.network > 0 => fetcher.census # None

\* CensusDataFetcher('') with CENSUS_API_KEY unset
C15_Witness ==
    /\ Constructing
    /\ call.api_key = Str(<<>>)
    /\ call.env = None
    /\ call.raised = "ValueError"
    /\ fetcher.census = None

\* CensusDataFetcher() with CENSUS_API_KEY set
C15_WitnessEnvironment ==
    /\ Constructing
    /\ call.api_key = None
    /\ call.env = Str(<<"b">>)
    /\ fetcher.census = Census(Str(<<"b">>))

----------------------------------------------------------------------------
(* Loader claims *)

\* load_geometries has just run
Loading == call.op = "load_geometries"

\* C13: load_geometries for tracts with no state (None or empty) raises
\* ValueError "State FIPS required ..." with no network read made and no
\* geometry table returned, and the run ends.
C13_TractNeedsState ==
    (Loading /\ call.level = "tract" /\ call.state \in {None, Str(<<>>)}) =>
       /\ call.raised = "ValueError"
       /\ call.message = <<"State FIPS required for tract-level geometries">>
       /\ call.network = 0
       /\ gdf = EmptyFrame
       /\ pc = "aborted"

C13_Witness ==
    /\ Loading
    /\ call.level = "tract"
    /\ call.state = None
    /\ call.raised = "ValueError"
    /\ call.network = 0
    /\ Len(df.rows) > 0

\* C14: load_geometries for a level other than state, county and tract
\* raises ValueError "Unknown level: <level>" with no network read made and
\* no geometry table returned, whatever the state argument.
C14_UnknownLevel ==
    (Loading /\ call.level \notin {"state", "county", "tract"}) =>
       /\ call.raised = "ValueError"
       /\ call.message = <<"Unknown level: ", call.level>>
       /\ call.network = 0
       /\ gdf = EmptyFrame
       /\ pc = "aborted"

C14_Witness ==
    /\ Loading
    /\ call.level = "place"
    /\ call.state = Str(<<"5", "3">>)
    /\ call.raised = "ValueError"
    /\ call.network = 0
    /\ gdf = EmptyFrame

----------------------------------------------------------------------------
(* census_output scripts: save_data, and a whole run of main() *)

\* the position of the first row that sorts after a row with the value
RECURSIVE Position(_, _, _)
Position(rows, col, value) ==
    IF Len(rows) = 0 \/ Less(rows[1][col], value) THEN 1
    ELSE 1 + Position(Tail(rows), col, value)

\* the rows in descending order of the column
RECURSIVE Descending(_, _)
Descending(rows, col) ==
    IF Len(rows) = 0 THEN <<>>
    ELSE LET rest == Descending(SubSeq(rows, 1, Len(rows) - 1), col)
             last == rows[Len(rows)]
             at == Position(rest, col, last[col])
         IN SubSeq(rest, 1, at - 1) \o <<last>> \o SubSeq(rest, at, Len(rest))

\* df.sort_values(col, ascending=False)
sort_values(t, col) == [columns |-> t.columns, rows |-> Descending(t.rows, col)]

\* a save_data that writes the joined table of the map
save_data_enriched(script) ==
    /\ files' = WriteFile(WriteFile(files, script \o "_data.csv", merged),
                          script \o "_data.json", merged)
    /\ call' = [op |-> "save_data", script |-> script, network |-> 0,
                raised |-> IF ScriptLevel(script) = "county" /\ Len(merged.rows) = 0
                           THEN "IndexError" ELSE "none"]
    /\ UNCHANGED <<df, gdf, merged, response, fetcher>>

\* save_data of a script: the sorted table as CSV and as JSON, then the
\* printed summary; the county scripts print df_sorted.iloc[-1], which
\* raises IndexError on a table with no rows
save_data(script) ==
    LET df_sorted == sort_values(df, ValueColumn(script))
    IN /\ files' = WriteFile(WriteFile(files, script \o "_data.csv", df_sorted),
                             script \o "_data.json", df_sorted)
       /\ call' = [op |-> "save_data", script |-> script, network |-> 0,
                   raised |-> IF ScriptLevel(script) = "county" /\ Len(df.rows) = 0
                              THEN "IndexError" ELSE "none"]
       /\ UNCHANGED <<df, gdf, merged, response, fetcher>>

\* save_data(df, output_dir)
SaveData ==
    /\ pc = "save_data"
    /\ save_data(call.script)
    /\ pc' = IF Raised' THEN "crashed" ELSE "done"

NextScript == FetchData \/ CreateMap \/ SaveData

SpecScript == InitScript /\ [][NextScript]_vars

----------------------------------------------------------------------------
(* Run claims *)

\* the request of the run has failed: no connection, a timeout or a status
\* that is not 2xx
RequestFailed == response.outcome \in {"ConnectionError", "Timeout", "HTTPError"}

\* C16: every fetch makes exactly one HTTP request, and a run whose
\* request has failed is over: the fetch, with its one request, is the
\* last call of the run, it has returned None, no geometry was read, no
\* table joined and no file written.
C16_FailedRequestTerminal ==
    /\ call.op = "fetch_data" => call.network = 1
    /\ RequestFailed =>
          /\ call.op = "fetch_data"
          /\ call.returned = "None"
          /\ pc = "exit"
          /\ gdf = EmptyFrame
          /\ merged = EmptyFrame
          /\ files = NoFiles

\* no step is taken once the request has failed
C16_NoStepAfterFailure == [][~RequestFailed]_vars

C16_Witness ==
    /\ response.outcome = "Timeout"
    /\ call.op = "fetch_data"
    /\ call.network = 1
    /\ pc = "exit"

\* the fetch step has failed: it returned None or raised
FetchFailed == call.op = "fetch_data" /\ (call.returned = "None" \/ Raised)

\* the map step has failed: create_map returned None
MapFailed == call.op = "create_map" /\ call.returned = "None"

\* every file written so far is still there, unchanged
FilesKept == \A n \in DOMAIN files : n \in DOMAIN files' /\ files'[n] = files[n]

\* C17: when the fetch or the map creation of a run fails, the run is over
\* and neither the file of the failed step nor a file of a later step
\* exists; and no step of a run removes or rewrites a file written before.
C17_NoOutputOfFailedStep ==
    /\ [](FetchFailed => pc \in {"exit", "crashed"} /\ files = NoFiles)
    /\ [](MapFailed => pc = "exit" /\ files = NoFiles)
    /\ [][FilesKept]_vars
    /\ [][~FetchFailed /\ ~MapFailed]_vars

\* the map creation fails after a fetch that returned rows
C17_Witness ==
    /\ MapFailed
    /\ Len(df.rows) > 0
    /\ pc = "exit"
    /\ files = NoFiles

\* save_data fails after the map and both data files were written
C17_WitnessKept ==
    /\ pc = "crashed"
    /\ call.op = "save_data"
    /\ DOMAIN files = {"washington_income_map.png", "washington_income_data.csv",
                       "washington_income_data.json"}

\* the body of the 2xx answer is not a table of the request
Malformed == response.outcome = "malformed"

\* C18 (as claimed): a fetch whose request succeeds with a body that is not
\* a well-formed table of the request returns the failure outcome (None)
\* to its caller and no table.
C18_MalformedBodyFails ==
    (call.op = "fetch_data" /\ Malformed) =>
       /\ call.raised = "none"
       /\ call.returned = "None"

\* what holds: text that is not JSON gives the failure outcome
C18_TextBodyFails ==
    (call.op = "fetch_data" /\ Malformed /\ response.body.k = "text") =>
       /\ call.raised = "none"
       /\ call.returned = "None"
       /\ pc = "exit"

----------------------------------------------------------------------------
(* create_state_density_map.py: the density column and the state filter *)

\* the two-digit FIPS code of a number
Fips(n) == Str(<<DIGITS[(n \div 10) + 1], DIGITS[(n % 10) + 1]>>)

\* the list state_fips of main(), in its order
state_fips ==
    [i \in 1 .. 50 |->
        Fips(<<1, 4, 5, 6, 8, 9, 10, 11, 12, 13,
               15, 16, 17, 18, 19, 20, 21, 22, 23, 24,
               25, 26, 27, 28, 29, 30, 31, 32, 33, 34,
               35, 36, 37, 38, 39, 40, 41, 42, 44, 45,
               46, 47, 48, 49, 50, 51, 53, 54, 55, 56>>[i])]

\* column.isin(values), for one cell
isin(cell, values) == \E i \in DOMAIN values : values[i] = cell

\* Series.astype(float), for one cell: None and NaN give NaN, numeric text
\* its number, and any other text raises ValueError
astype_float(cell) ==
    IF cell.k = "str"
    THEN (IF ParseNumber(cell.s) = NaN THEN [k |-> "ValueError"] ELSE ParseNumber(cell.s))
    ELSE IF cell.k = "missing" THEN NaN
    ELSE cell

\* merged_albers.geometry.area / 2589988.110336: a polygon of the model
\* carries its projected area in units of 2589988.110336 square metres
area_sq_mi(geometry) == geometry.area

\* merged['population'] / merged['area_sq_mi'], for one row
density(population, area) == Div(population, area)

\* a derivation that divides every row by the area of the first row
calculate_density_first_area ==
    LET t1 == SetColumn(merged, "area_sq_mi",
                  [i \in DOMAIN merged.rows |-> area_sq_mi(merged.rows[i].geometry)])
        population == [i \in DOMAIN merged.rows |-> astype_float(merged.rows[i].B01003_001E)]
        t2 == SetColumn(t1, "population", population)
        t3 == SetColumn(t2, "density",
                  [i \in DOMAIN t2.rows |->
                     density(t2.rows[i].population, t2.rows[1].area_sq_mi)])
    IN IF \E i \in DOMAIN population : population[i] = [k |-> "ValueError"]
       THEN /\ merged' = t1
            /\ call' = [op |-> "calculate_density", table |-> merged, network |-> 0,
                        raised |-> "ValueError"]
            /\ UNCHANGED <<df, gdf, response, files, fetcher>>
       ELSE /\ merged' = t3
            /\ call' = [op |-> "calculate_density", table |-> merged, network |-> 0,
                        raised |-> "none"]
            /\ UNCHANGED <<df, gdf, response, files, fetcher>>

\* lines 51-59 of main(): the area column is assigned, then astype(float)
\* raises on the first text that is no number, or else the population and
\* density columns are assigned
calculate_density ==
    LET t1 == SetColumn(merged, "area_sq_mi",
                  [i \in DOMAIN merged.rows |-> area_sq_mi(merged.rows[i].geometry)])
        population == [i \in DOMAIN merged.rows |-> astype_float(merged.rows[i].B01003_001E)]
        t2 == SetColumn(t1, "population", population)
        t3 == SetColumn(t2, "density",
                  [i \in DOMAIN t2.rows |->
                     density(t2.rows[i].population, t2.rows[i].area_sq_mi)])
    IN IF \E i \in DOMAIN population : population[i] = [k |-> "ValueError"]
       THEN /\ merged' = t1
            /\ call' = [op |-> "calculate_density", table |-> merged, network |-> 0,
                        raised |-> "ValueError"]
            /\ UNCHANGED <<df, gdf, response, files, fetcher>>
       ELSE /\ merged' = t3
            /\ call' = [op |-> "calculate_density", table |-> merged, network |-> 0,
                        raised |-> "none"]
            /\ UNCHANGED <<df, gdf, response, files, fetcher>>

\* merged = merged[merged['GEOID'].isin(state_fips)]
filter_states ==
    /\ merged' = [columns |-> merged.columns,
                  rows |-> SelectSeq(merged.rows, LAMBDA r : isin(r.GEOID, state_fips))]
    /\ call' = [op |-> "filter_states", table |-> merged, network |-> 0, raised |-> "none"]
    /\ UNCHANGED <<df, gdf, response, files, fetcher>>

\* the STATEFP codes of the features of tl_2021_us_state: the states, the
\* District of Columbia and the territories
STATE_FEATURES ==
    {Fips(n) : n \in (1 .. 56) \ {3, 7, 14, 43, 52}} \cup {Fips(n) : n \in {60, 66, 69, 72, 78}}

\* what merge_data leaves in B01003_001E: the provider's text (a count, the
\* sentinel, an annotation), None, or NaN for a geometry with no metric row
POPULATION_CELLS == {Str(<<"7">>), Str(<<"0">>), SENTINEL, NOT_AVAILABLE, Missing, NaN}

\* projected areas: a polygon, and a degenerate polygon
AREAS == {Num(2, 1), Num(0, 1)}

\* rows of the enriched state table: every feature with a count, and
\* Washington with every cell and area
DensityRows ==
    {[GEOID |-> g, B01003_001E |-> Str(<<"7">>),
      geometry |-> [k |-> "polygon", id |-> 1, area |-> Num(2, 1)]] : g \in STATE_FEATURES}
    \cup {[GEOID |-> WASHINGTON, B01003_001E |-> p,
           geometry |-> [k |-> "polygon", id |-> 1, area |-> a]] :
              p \in POPULATION_CELLS, a \in AREAS}

InitDensity ==
    /\ pc = "density"
    /\ df = EmptyFrame
    /\ gdf = EmptyFrame
    /\ \E rows \in SeqsUpTo(DensityRows, MaxStateRows) :
          merged = [columns |-> {"GEOID", "B01003_001E", "geometry"}, rows |-> rows]
    /\ call = NoCall
    /\ response = NoResponse
    /\ files = NoFiles
    /\ fetcher = Fetcher(Str(<<"a">>))

CalculateDensity ==
    /\ pc = "density"
    /\ calculate_density
    /\ pc' = IF Raised' THEN "crashed" ELSE "filter"

FilterStates ==
    /\ pc = "filter"
    /\ filter_states
    /\ pc' = "render_density"

NextDensity == CalculateDensity \/ FilterStates

SpecDensity == InitDensity /\ [][NextDensity]_vars

----------------------------------------------------------------------------
(* Density claims *)

\* the density step has just run on the table call.table
DensityDerived == call.op = "calculate_density"

\* C19 (as claimed): for every enriched row, density = population / area
\* (no scaling by 100) when the population cell is numeric and the area is
\* not zero, and density is missing, with no exception raised and no
\* infinity, when the population cell is non-numeric or missing or the
\* area is zero.
C19_DensityMissingShape ==
    DensityDerived =>
       /\ call.raised = "none"
       /\ \A i \in DOMAIN call.table.rows :
             LET cell == call.table.rows[i].B01003_001E
                 area == call.table.rows[i].geometry.area
                 numeric == ~IsNA(cell) /\ IsNumeric(cell)
             IN IF numeric /\ area.n # 0
                THEN /\ IsNum(merged.rows[i].density)
                     /\ merged.rows[i].density.n * area.n
                           = SignOf(cell) * Magnitude(cell) * area.d * merged.rows[i].density.d
                ELSE IsNA(merged.rows[i].density)

\* what holds: with a numeric population cell and an area that is not
\* zero the density is population / area, and a missing population cell
\* gives a missing density
C19_DensityOfNumbers ==
    (DensityDerived /\ ~Raised) =>
       \A i \in DOMAIN call.table.rows :
          LET cell == call.table.rows[i].B01003_001E
              area == call.table.rows[i].geometry.area
          IN /\ (~IsNA(cell) /\ IsNumeric(cell) /\ area.n # 0) =>
                   /\ IsNum(merged.rows[i].density)
                   /\ merged.rows[i].density.n * area.n
                         = SignOf(cell) * Magnitude(cell) * area.d * merged.rows[i].density.d
             /\ IsNA(cell) => IsNA(merged.rows[i].density)

\* the state filter has just run on the table call.table
Filtered == call.op = "filter_states"

\* the row of the filtered table is kept from the table before the filter
Passes(i) == \E k \in DOMAIN merged.rows : merged.rows[k].GEOID = call.table.rows[i].GEOID

\* the codes of the 50 states and the District of Columbia
STATES_AND_DC == {Fips(n) : n \in (1 .. 56) \ {3, 7, 14, 43, 52}}

\* C20 (as claimed): the filter keeps exactly the 50 states and the
\* District of Columbia: a row passes if and only if its GEOID is one of
\* the 51 codes, so no territory passes.
C20_FiftyStatesAndDC ==
    Filtered =>
       \A i \in DOMAIN call.table.rows :
          Passes(i) <=> call.table.rows[i].GEOID \in STATES_AND_DC

\* what holds: no territory passes, and every listed code passes
C20_TerritoriesExcluded ==
    Filtered =>
       \A i \in DOMAIN call.table.rows :
          /\ Passes(i) => call.table.rows[i].GEOID \in STATES_AND_DC
          /\ Passes(i) <=> isin(call.table.rows[i].GEOID, state_fips)

----------------------------------------------------------------------------
(* Frame claims *)

\* the columns of the table that was passed in are in the table now, with
\* the cells they had, and the rows are as many as before, in their order
InputKept ==
    /\ call.table.columns \subseteq df.columns
    /\ Len(df.rows) = Len(call.table.rows)
    /\ \A i \in DOMAIN call.table.rows :
          \A c \in call.table.columns : df.rows[i][c] = call.table.rows[i][c]

\* C21 (as claimed): for every table and every choice of numerator,
\* denominator and result column name, calculate_percentage leaves every
\* original column with its values and the rows in number and order.
C21_OriginalColumnsKept == Derived => InputKept

\* what holds: when the result name is not a column of the table, the
\* original columns and the rows are kept and the result is the one column
\* added; and a call that raises leaves the table as it was
C21_NewColumnOnly ==
    /\ (Derived /\ call.result_col \notin call.table.columns) =>
          /\ InputKept
          /\ df.columns = call.table.columns \cup {call.result_col}
    /\ (call.op = "calculate_percentage" /\ Raised) => df = call.table

----------------------------------------------------------------------------
(* map_visualize.py: create_choropleth, create_multi_map and save_map, on  *)
(* the caller's enriched table (the variable merged)                       *)

\* gdf[gdf.geometry.notna()]
notna_geometry(t) ==
    [columns |-> t.columns, rows |-> SelectSeq(t.rows, LAMBDA r : r.geometry # Missing)]

\* the cells of a column, in row order
Column(t, col) == [i \in DOMAIN t.rows |-> t.rows[i][col]]

\* gdf[column] = pd.to_numeric(gdf[column], errors='coerce')
coerce_column(t, col) ==
    SetColumn(t, col, [i \in DOMAIN t.rows |-> to_numeric(t.rows[i][col])])

\* plot: what gdf.plot does with the data (it draws, or raises);
\* tiles: what the tile server answers when a basemap is asked for.
\* The column is coerced in the caller's table before gdf is rebound; an
\* exception of ctx.add_basemap is caught and the figure is returned
\* without the basemap.
create_choropleth(column, add_basemap, plot, tiles) ==
    IF column \notin merged.columns THEN
        /\ call' = [op |-> "create_choropleth", table |-> merged, columns |-> <<column>>,
                    add_basemap |-> add_basemap, tiles |-> "none", network |-> 0,
                    raised |-> "KeyError"]
        /\ UNCHANGED <<df, gdf, merged, response, files, fetcher>>
    ELSE IF plot # "ok" THEN
        /\ merged' = coerce_column(merged, column)
        /\ call' = [op |-> "create_choropleth", table |-> merged, columns |-> <<column>>,
                    add_basemap |-> add_basemap, tiles |-> "none", network |-> 0,
                    raised |-> plot]
        /\ UNCHANGED <<df, gdf, response, files, fetcher>>
    ELSE
        /\ merged' = coerce_column(merged, column)
        /\ call' = [op |-> "create_choropleth", table |-> merged, columns |-> <<column>>,
                    add_basemap |-> add_basemap,
                    tiles |-> IF add_basemap THEN tiles ELSE "none",
                    network |-> IF add_basemap THEN 1 ELSE 0,
                    raised |-> "none",
                    returned |-> [axes |-> <<Column(notna_geometry(coerce_column(merged, column)),
                                                     column)>>,
                                  basemap |-> add_basemap /\ tiles = "ok"]]
        /\ UNCHANGED <<df, gdf, response, files, fetcher>>

\* the table after the loop has coerced the first n columns of the list
RECURSIVE coerce_columns(_, _, _)
coerce_columns(t, columns, n) ==
    IF n = 0 THEN t ELSE coerce_column(coerce_columns(t, columns, n - 1), columns[n])

\* one axis per column; df[col] raises KeyError at the first column the
\* table lacks, after the columns before it were coerced
create_multi_map(columns) ==
    LET known == {n \in DOMAIN columns : \A m \in 1 .. n : columns[m] \in merged.columns}
        done == Cardinality(known)
        t == coerce_columns(merged, columns, done)
    IN /\ merged' = t
       /\ call' = IF done < Len(columns)
                  THEN [op |-> "create_multi_map", table |-> merged, columns |-> columns,
                        network |-> 0, raised |-> "KeyError"]
                  ELSE [op |-> "create_multi_map", table |-> merged, columns |-> columns,
                        network |-> 0, raised |-> "none",
                        returned |-> [axes |-> [n \in DOMAIN columns |-> Column(t, columns[n])],
                                      basemap |-> FALSE]]
       /\ UNCHANGED <<df, gdf, response, files, fetcher>>

\* save_map(fig, filename)
save_map(fig, filename) ==
    /\ files' = WriteFile(files, filename \o ".png", fig)
    /\ call' = [op |-> "save_map", network |-> 0, raised |-> "none", filename |-> filename]
    /\ UNCHANGED <<df, gdf, merged, response, fetcher>>

\* the cells of the columns a caller plots: text of a count, a number, an
\* annotation, None
PLOT_CELLS == {Str(<<"7">>), Num(7, 1), NOT_AVAILABLE, Missing}

\* rows of an enriched table: a geometry, or none
RenderRows ==
    [GEOID : {WASHINGTON}, population : PLOT_CELLS,
     median_income : {Str(<<"5">>), Num(5, 1)},
     geometry : {[k |-> "polygon", id |-> 1], Missing}]

InitRender ==
    /\ pc = "render"
    /\ df = EmptyFrame
    /\ gdf = EmptyFrame
    /\ \E rows \in SeqsUpTo(RenderRows, MaxRows) :
          merged = [columns |-> {"GEOID", "population", "median_income", "geometry"},
                    rows |-> rows]
    /\ call = NoCall
    /\ response = NoResponse
    /\ files = NoFiles
    /\ fetcher = NoFetcher

CreateChoropleth ==
    /\ pc = "render"
    /\ \E column \in {"population", "poverty"} :
          \E env \in {<<FALSE, "ValueError", "none">>, <<FALSE, "ok", "none">>,
                       <<TRUE, "ok", "ok">>, <<TRUE, "ok", "error">>} :
             create_choropleth(column, env[1], env[2], env[3])
    /\ pc' = IF Raised' THEN "crashed" ELSE "save_map"

CreateMultiMap ==
    /\ pc = "render"
    /\ \E columns \in {<<"population">>, <<"population", "median_income">>,
                         <<"population", "poverty">>} :
          create_multi_map(columns)
    /\ pc' = IF Raised' THEN "crashed" ELSE "save_map"

SaveMap ==
    /\ pc = "save_map"
    /\ save_map(call.returned, "sample_population_map")
    /\ pc' = "done"

NextRender == CreateChoropleth \/ CreateMultiMap \/ SaveMap

SpecRender == InitRender /\ [][NextRender]_vars

----------------------------------------------------------------------------
(* Render claims *)

\* a rendering operation has just run on the table call.table
Rendered == call.op \in {"create_choropleth", "create_multi_map"}

\* the cell has the value it had: the same cell, the same number, or a
\* missing value for a missing value
SameValue(before, after) ==
    \/ after = before
    \/ IsNum(after) /\ to_numeric(before) = after
    \/ IsNA(before) /\ IsNA(after)

\* C22 (as claimed): create_choropleth and create_multi_map leave every
\* column of the caller's table with the values it had before the call.
C22_RenderLeavesTable ==
    Rendered =>
       /\ merged.columns = call.table.columns
       /\ Len(merged.rows) = Len(call.table.rows)
       /\ \A i \in DOMAIN call.table.rows :
             \A c \in call.table.columns :
                SameValue(call.table.rows[i][c], merged.rows[i][c])

\* what holds: the rows and the columns that were not plotted are as they
\* were, and save_map changes no table
C22_OtherColumnsKept ==
    /\ Rendered =>
          /\ merged.columns = call.table.columns
          /\ Len(merged.rows) = Len(call.table.rows)
          /\ \A i \in DOMAIN call.table.rows :
                \A c \in call.table.columns :
                   (\A n \in DOMAIN call.columns : call.columns[n] # c) =>
                      merged.rows[i][c] = call.table.rows[i][c]
    /\ [][call'.op = "save_map" => merged' = merged]_vars

\* the tile fetch of create_choropleth has failed
BasemapFailed == call.op = "create_choropleth" /\ call.tiles = "error"

\* C23 (as claimed): when the basemap tile fetch inside create_choropleth
\* fails, the step fails and the run is aborted; no figure is returned.
C23_BasemapFailureAborts ==
    BasemapFailed =>
       /\ Raised
       /\ pc = "crashed"
       /\ "returned" \notin DOMAIN call

\* what the code does: the figure is returned without the basemap and the
\* run goes on to save it
C23_BasemapFailureDegrades ==
    BasemapFailed =>
       /\ ~Raised
       /\ call.returned.basemap = FALSE
       /\ pc = "save_map"

----------------------------------------------------------------------------
(* create_state_density_map.py: main() from the join to the export *)

\* float64 a < b; NaN compares false with everything
float_less(a, b) ==
    IF a.k = "nan" \/ b.k = "nan" THEN FALSE
    ELSE IF a = b THEN FALSE
    ELSE IF a.k = "-inf" \/ b.k = "inf" THEN TRUE
    ELSE IF a.k = "inf" \/ b.k = "-inf" THEN FALSE
    ELSE Less(a, b)

\* where the value goes in rows sorted descending with NaN last
RECURSIVE na_last_position(_, _, _)
na_last_position(rows, col, value) ==
    IF Len(rows) = 0 THEN 1
    ELSE IF float_less(rows[1][col], value) \/ (rows[1][col].k = "nan" /\ value.k # "nan")
    THEN 1
    ELSE 1 + na_last_position(Tail(rows), col, value)

RECURSIVE na_last_descending(_, _)
na_last_descending(rows, col) ==
    IF Len(rows) = 0 THEN <<>>
    ELSE LET rest == na_last_descending(SubSeq(rows, 1, Len(rows) - 1), col)
             last == rows[Len(rows)]
             at == na_last_position(rest, col, last[col])
         IN SubSeq(rest, 1, at - 1) \o <<last>> \o SubSeq(rest, at, Len(rest))

\* DataFrame.rename(columns={old: new})
rename(t, old, new) ==
    [columns |-> (t.columns \ {old}) \cup {new},
     rows |-> [i \in DOMAIN t.rows |->
                 [c \in (t.columns \ {old}) \cup {new} |->
                     IF c = new THEN t.rows[i][old] ELSE t.rows[i][c]]]]

\* export_data(df, filename): the table without its geometry column
export_data(t, filename) ==
    /\ files' = WriteFile(files, filename, Project(t, t.columns \ {"geometry"}))
    /\ call' = [op |-> "export_data", network |-> 0, raised |-> "none", filename |-> filename]
    /\ UNCHANGED <<df, gdf, merged, response, fetcher>>

\* lines 117-131 of main(): the exported columns, a label column when the
\* table has one, the rows by descending density
export_df ==
    LET label == IF "NAME" \in merged.columns THEN {"NAME"}
                 ELSE IF "STUSPS" \in merged.columns THEN {"STUSPS"} ELSE {}
        selected == Project(merged, label \cup {"GEOID", "population", "area_sq_mi", "density"})
        sorted == [columns |-> selected.columns,
                   rows |-> na_last_descending(selected.rows, "density")]
    IN IF label = {} THEN sorted
       ELSE rename(sorted, CHOOSE c \in label : TRUE, "State")

\* the features of the state file the run loads, with their projected
\* areas: two states and a territory
RUN_SHAPES ==
    {[STATEFP |-> WASHINGTON, GEOID |-> WASHINGTON, NAME |-> Str(<<"g">>),
      STUSPS |-> Str(<<"W", "A">>), geometry |-> [k |-> "polygon", id |-> 1, area |-> Num(2, 1)]],
     [STATEFP |-> Fips(6), GEOID |-> Fips(6), NAME |-> Str(<<"g">>),
      STUSPS |-> Str(<<"C", "A">>), geometry |-> [k |-> "polygon", id |-> 2, area |-> Num(4, 1)]],
     [STATEFP |-> Fips(72), GEOID |-> Fips(72), NAME |-> Str(<<"g">>),
      STUSPS |-> Str(<<"P", "R">>), geometry |-> [k |-> "polygon", id |-> 3, area |-> Num(2, 1)]]}

\* the rows fetch_state_data returns for the run
RunDataRows ==
    [NAME : {Str(<<"n">>)}, B01003_001E : {Str(<<"7">>), Str(<<"8">>), NOT_AVAILABLE},
     state : {WASHINGTON, Fips(6)}, GEOID : {WASHINGTON, Fips(6)}]

\* after fetch_state_data and load_geometries: the file has one feature
\* per code, and the GEOID of a data row is its state code
InitDensityRun ==
    /\ pc = "merge_states"
    /\ \E rows \in SeqsUpTo(RunDataRows, MaxRows) :
          /\ \A i \in DOMAIN rows : rows[i].GEOID = rows[i].state
          /\ df = [columns |-> {"NAME", "B01003_001E", "state", "GEOID"}, rows |-> rows]
    /\ \E features \in SeqsUpTo(RUN_SHAPES, MaxRows) :
          /\ \A i, j \in DOMAIN features : features[i] = features[j] => i = j
          /\ gdf = [columns |-> {"STATEFP", "GEOID", "NAME", "STUSPS", "geometry"},
                    rows |-> features]
    /\ merged = EmptyFrame
    /\ call = NoCall
    /\ response = NoResponse
    /\ files = NoFiles
    /\ fetcher = Fetcher(Str(<<"a">>))

\* merged = viz.merge_data(states_geo, state_data)
MergeStates ==
    /\ pc = "merge_states"
    /\ merge_data("GEOID")
    /\ pc' = "density"

\* viz.create_choropleth(merged, column='density', ...), no basemap
RenderDensity ==
    /\ pc = "render_density"
    /\ \E plot \in {"ok", "ValueError"} : create_choropleth("density", FALSE, plot, "none")
    /\ pc' = IF Raised' THEN "crashed" ELSE "save_density_map"

\* viz.save_map(fig, 'us_state_population_density')
SaveDensityMap ==
    /\ pc = "save_density_map"
    /\ save_map(call.returned, "us_state_population_density")
    /\ pc' = "export_density"

\* viz.export_data(export_df, filename='state_density_data.csv')
ExportDensity ==
    /\ pc = "export_density"
    /\ export_data(export_df, "state_density_data.csv")
    /\ pc' = "done"

NextDensityRun ==
    \/ MergeStates
    \/ CalculateDensity
    \/ FilterStates
    \/ RenderDensity
    \/ SaveDensityMap
    \/ ExportDensity

SpecDensityRun == InitDensityRun /\ [][NextDensityRun]_vars

----------------------------------------------------------------------------
(* Density run claims *)

\* the area of the feature of the loaded file with the given code
ShapeArea(geoid) ==
    (CHOOSE r \in {gdf.rows[i] : i \in DOMAIN gdf.rows} : r.GEOID = geoid).geometry.area

\* the density cell is the population cell of its row over the area cell
\* of its row, and the area is that of the shape with the row's code
OwnDensity(row) ==
    /\ row.area_sq_mi = ShapeArea(row.GEOID)
    /\ row.density = Div(row.population, row.area_sq_mi)

\* the step that ran last, and the step that may run after it
StepBefore(op) ==
    CASE op = "merge_data" -> "none"
      [] op = "calculate_density" -> "merge_data"
      [] op = "filter_states" -> "calculate_density"
      [] op = "create_choropleth" -> "filter_states"
      [] op = "save_map" -> "create_choropleth"
      [] op = "export_data" -> "save_map"

\* C24: in the state-density run the steps follow one another in the order
\* join, area and density derivation, territory filter, render, save,
\* export; the table never has a density column without its area column,
\* and every density value of the table, of the rendered figure and of the
\* exported file is the population of its row over the area of the shape
\* of that same row.
C24_DensityAfterArea ==
    /\ [][call'.op # call.op => call.op = StepBefore(call'.op)]_vars
    /\ []("density" \in merged.columns =>
            /\ "area_sq_mi" \in merged.columns
            /\ \A i \in DOMAIN merged.rows : OwnDensity(merged.rows[i]))
    /\ []((call.op = "create_choropleth" /\ ~Raised) =>
            call.returned.axes = <<[i \in DOMAIN merged.rows |->
                                      Div(astype_float(merged.rows[i].B01003_001E),
                                          ShapeArea(merged.rows[i].GEOID))]>>)
    /\ [](call.op = "export_data" =>
            LET out == files["state_density_data.csv"]
            IN /\ Len(out.rows) = Len(merged.rows)
               /\ \A i \in DOMAIN out.rows : OwnDensity(out.rows[i]))

\* a finished run that exported two states of different area, each with
\* its own density
C24_Witness ==
    /\ pc = "done"
    /\ call.op = "export_data"
    /\ "us_state_population_density.png" \in DOMAIN files
    /\ LET out == files["state_density_data.csv"]
       IN /\ Len(out.rows) = 2
          /\ out.rows[1].area_sq_mi # out.rows[2].area_sq_mi
          /\ \A i \in DOMAIN out.rows : IsNum(out.rows[i].density)

----------------------------------------------------------------------------
(* Export claims *)

\* save_data of the run's script has written its files
Exported == call.op = "save_data"

\* the exported CSV of the run
ExportedTable == files[call.script \o "_data.csv"]

\* row j of the provider's answer passes the cleaning step of the script:
\* its statistic is a number, and for the tract script a positive one
Survives(j) ==
    LET value == to_numeric(MetricRow(j)[RequestedCode])
    IN /\ value # NaN
       /\ ScriptLevel(call.script) = "tract" => GreaterThanZero(value)

\* the exported row is about the unit of metric row j, with its statistic
ExportOf(row, j) ==
    /\ row.full_fips = ComposedGeoid(j)
    /\ row[ValueColumn(call.script)] = to_numeric(MetricRow(j)[RequestedCode])

\* the key of exported row is the key of a row of the geometry table
HasGeometry(row) == \E i \in DOMAIN gdf.rows : gdf.rows[i].full_fips = row.full_fips

\* C25: the CSV and the JSON of a script hold the rows of the cleaned metric
\* table, each as often as the table has it and with the table's columns
\* (no geometry column, no row for a geometry without a metric row): one
\* row for every row of the provider's answer that passed cleaning, with or
\* without a matching geometry, and no other; map creation leaves the
\* cleaned table as it was, and save_data runs only after create_map
\* returned its table and wrote the map.
C25_ExportIsCleanedTable ==
    /\ [](Exported =>
            /\ files[call.script \o "_data.json"] = ExportedTable
            /\ ExportedTable.columns = df.columns
            /\ "geometry" \notin ExportedTable.columns
            /\ Len(ExportedTable.rows) = Len(df.rows)
            /\ \A k \in DOMAIN df.rows :
                  Cardinality({i \in DOMAIN ExportedTable.rows :
                                  ExportedTable.rows[i] = df.rows[k]})
                     = Cardinality({i \in DOMAIN df.rows : df.rows[i] = df.rows[k]}))
    /\ []((Exported /\ response.outcome = "ok") =>
            /\ Len(ExportedTable.rows)
                  = Cardinality({j \in DOMAIN response.table.rows : Survives(j)})
            /\ \A j \in DOMAIN response.table.rows :
                  Survives(j) =>
                     \E i \in DOMAIN ExportedTable.rows : ExportOf(ExportedTable.rows[i], j)
            /\ \A i \in DOMAIN ExportedTable.rows :
                  \E j \in DOMAIN response.table.rows :
                     Survives(j) /\ ExportOf(ExportedTable.rows[i], j))
    /\ [][call'.op \in {"create_map", "save_data"} => df' = df]_vars
    /\ [][call'.op = "save_data" =>
             /\ call.op = "create_map"
             /\ call.returned = "table"
             /\ (call.script \o "_map.png") \in DOMAIN files]_vars

\* an export with a metric row that has no geometry, after a map that has
\* a geometry with no metric row
C25_Witness ==
    /\ Exported
    /\ pc = "done"
    /\ response.outcome = "ok"
    /\ \E i \in DOMAIN ExportedTable.rows : ~HasGeometry(ExportedTable.rows[i])
    /\ \E i \in DOMAIN gdf.rows :
          \A k \in DOMAIN ExportedTable.rows :
             ExportedTable.rows[k].full_fips # gdf.rows[i].full_fips
    /\ Len(merged.rows) # Len(ExportedTable.rows)

====
